---- MODULE Spec2Model ----
(***************************************************************************)
(* Lovely-Logs: the Logger class of src/src/index.ts (lines 1-537), its    *)
(* process-wide singleton and the exported Proxy handle `logger`.           *)
(*                                                                         *)
(* JavaScript values are records tagged by `kind`.  A JavaScript string    *)
(* that the logger assembles from a template literal is a sequence of      *)
(* tokens (TLA+ strings); concatenation is \o.  An object with optional     *)
(* properties (LoggerOptions, the context map, the prefix map) is a        *)
(* function whose DOMAIN holds the properties that are present.            *)
(***************************************************************************)
EXTENDS Integers, Sequences, FiniteSets, TLC

VARIABLES
    env,        \* process.env and the `window` global
    now,        \* the value Date.now() returns
    instance,   \* Logger.instance: Null or the fields of the singleton
    target,     \* own properties of the Proxy's target object ({} as Logger)
    nextId,     \* number of Logger objects constructed so far (object identity)
    out,        \* console.log / console.error calls made by the last operation
    last,       \* the last operation: its name, receiver, inputs and outcome
    release     \* the release script: where it stands, and the .npmrc file

vars == <<env, now, instance, target, nextId, out, last, release>>

Null == [kind |-> "null"]

Undefined == [kind |-> "undefined"]

\* `last`, the record of the last operation, when nothing has been called yet:
\* the operation, the receiver it was called on, the call with its arguments,
\* whether it constructed the singleton, whether it threw, what it returned
NoCall == [op |-> "none", via |-> "none", call |-> [op |-> "none"],
           constructed |-> FALSE, threw |-> FALSE, ret |-> Undefined]

\* `release` while the release script is not run: no step, no .npmrc file
NotRunning == [pc |-> "idle", npmrc |-> Undefined]

(***************************************************************************)
(* Bounds of the model.                                                    *)
(***************************************************************************)
MaxDepth == 2      \* group()/groupCollapsed() are not offered above this depth
MaxInstances == 2  \* Logger objects constructed in one behaviour
MaxNow == 3        \* Date.now() does not advance beyond this value

(***************************************************************************)
(* Strings whose characters matter: level names and LOG_LEVEL.             *)
(***************************************************************************)
LowerLetters == <<"a","b","c","d","e","f","g","h","i","j","k","l","m",
                  "n","o","p","q","r","s","t","u","v","w","x","y","z">>
UpperLetters == <<"A","B","C","D","E","F","G","H","I","J","K","L","M",
                  "N","O","P","Q","R","S","T","U","V","W","X","Y","Z">>

LetterIndex(letters, c) == CHOOSE i \in 1..Len(letters) : letters[i] = c

IsLetterOf(letters, c) == \E i \in 1..Len(letters) : letters[i] = c

\* String.prototype.toLowerCase, character by character
ToLowerCase(s) ==
    [i \in 1..Len(s) |->
        IF IsLetterOf(UpperLetters, s[i])
        THEN LowerLetters[LetterIndex(UpperLetters, s[i])]
        ELSE s[i]]

\* String.prototype.toUpperCase, character by character
ToUpperCase(s) ==
    [i \in 1..Len(s) |->
        IF IsLetterOf(LowerLetters, s[i])
        THEN UpperLetters[LetterIndex(LowerLetters, s[i])]
        ELSE s[i]]

\* The values of LogLevels (index.ts 37-45), in declaration order
LogLevels == <<"debug", "info", "warn", "error", "success", "group", "groupCollapsed">>

LogLevelSet == {LogLevels[i] : i \in 1..Len(LogLevels)}

\* The five methods that log at a level of their own (index.ts 410-428)
LogMethods == {"debug", "info", "warn", "error", "success"}

\* The characters of each level name, and of "verbose", a string that names
\* no level
Chars ==
    [debug          |-> <<"d","e","b","u","g">>,
     info           |-> <<"i","n","f","o">>,
     warn           |-> <<"w","a","r","n">>,
     error          |-> <<"e","r","r","o","r">>,
     success        |-> <<"s","u","c","c","e","s","s">>,
     group          |-> <<"g","r","o","u","p">>,
     groupCollapsed |-> <<"g","r","o","u","p","C","o","l","l","a","p","s","e","d">>,
     verbose        |-> <<"v","e","r","b","o","s","e">>]

\* LogLevelPriority (index.ts 47-53): its keys, by their characters, and values
LogLevelPriority ==
    { [key |-> <<"D","E","B","U","G">>,             priority |-> 0],
      [key |-> <<"I","N","F","O">>,                 priority |-> 1],
      [key |-> <<"W","A","R","N">>,                 priority |-> 2],
      [key |-> <<"E","R","R","O","R">>,             priority |-> 3],
      [key |-> <<"S","U","C","C","E","S","S">>,     priority |-> 4] }

\* A priority table in which the group levels rank above success
Priority_GroupOnTop(level) ==
    LET key == ToUpperCase(Chars[level])
    IN  IF \E e \in LogLevelPriority : e.key = key
        THEN (CHOOSE e \in LogLevelPriority : e.key = key).priority
        ELSE IF level \in {"group", "groupCollapsed"} THEN 5 ELSE -1

\* LogLevelPriority[level.toUpperCase()] ?? -1   (index.ts 293-299)
Priority(level) ==
    LET key == ToUpperCase(Chars[level])
    IN  IF \E e \in LogLevelPriority : e.key = key
        THEN (CHOOSE e \in LogLevelPriority : e.key = key).priority
        ELSE -1

(***************************************************************************)
(* JavaScript values passed as log arguments or stored in the context.     *)
(***************************************************************************)
Str(t) == [kind |-> "string", text |-> t]

Num(n) == [kind |-> "number", value |-> n]

\* A plain object; jsonable is FALSE when JSON.stringify throws on it
\* (a circular structure, a BigInt inside)
Obj(name, jsonable) == [kind |-> "object", name |-> name, jsonable |-> jsonable]

\* An Error: its name, message and stack, and its own custom properties
\* (statusCode, request, ...) as a function from their names to values
ErrWith(name, message, props) ==
    [kind |-> "error", name |-> name, message |-> message, props |-> props,
     stack |-> name \o ": " \o message \o " at <stack>"]

\* An Error without custom properties (jsonable), or with one custom property
\* that makes JSON.stringify throw
Err(name, jsonable) ==
    ErrWith(name, "failed",
            IF jsonable THEN <<>> ELSE [request |-> Obj("circular", FALSE)])

IsError(v) == v.kind = "error"

\* JSON.stringify throws a TypeError on an object with a circular structure
Unserializable(v) == v.kind = "object" /\ ~v.jsonable

\* JSON.stringify(v) throws a TypeError: v is such an object, or an Error or
\* a serialized Error one of whose properties is
JsonThrows(v) ==
    \/ Unserializable(v)
    \/ /\ v.kind = "error"
       /\ \E k \in DOMAIN v.props : Unserializable(v.props[k])
    \/ /\ v.kind = "record"
       /\ \E k \in DOMAIN v.fields : Unserializable(v.fields[k])

(***************************************************************************)
(* Sequence helpers.                                                       *)
(***************************************************************************)
\* messages.filter((msg) => msg instanceof Error)
SelectErrors(msgs) == SelectSeq(msgs, IsError)

IsNotError(v) == ~IsError(v)

\* messages.filter((msg) => !(msg instanceof Error))
SelectNonErrors(msgs) == SelectSeq(msgs, IsNotError)

\* "  ".repeat(n), one token per space   (index.ts 318)
Repeat2Spaces(n) == [i \in 1..(2 * n) |-> " "]

RECURSIVE Flatten(_)
\* The characters of a string put back together as one token
Flatten(cs) == IF cs = <<>> THEN "" ELSE Head(cs) \o Flatten(Tail(cs))

\* String.prototype.includes
Includes(s, sub) ==
    \E i \in 1..(Len(s) - Len(sub) + 1) : SubSeq(s, i, i + Len(sub) - 1) = sub

\* JavaScript truthiness of a string or undefined value
Truthy(v) == v.kind = "string" /\ v.text # ""

\* o.f ?? d on an options object
Coalesce(o, f, d) == IF f \in DOMAIN o THEN o[f] ELSE d

(***************************************************************************)
(* Environment: process.env as a function from the names of the variables  *)
(* that are set to their characters, and "window" when a window global     *)
(* exists (its value: whether window.document is truthy).                  *)
(***************************************************************************)
EnvTruthy(e, name) == name \in DOMAIN e /\ e[name] # <<>>

\* A detector that looks for the Lambda signal before the ECS signals
detectPlatform_LambdaFirst(e) ==
    IF "window" \in DOMAIN e /\ e["window"]
    THEN "web"
    ELSE IF EnvTruthy(e, "AWS_LAMBDA_FUNCTION_NAME")
    THEN "lambda"
    ELSE IF \/ EnvTruthy(e, "ECS_CONTAINER_METADATA_URI")
            \/ EnvTruthy(e, "ECS_CONTAINER_METADATA_URI_V4")
            \/ /\ "AWS_EXECUTION_ENV" \in DOMAIN e
               /\ Includes(e["AWS_EXECUTION_ENV"], <<"E","C","S">>)
    THEN "ecs"
    ELSE "console"

\* detectPlatform (index.ts 117-135)
detectPlatform(e) ==
    IF "window" \in DOMAIN e /\ e["window"]
    THEN "web"
    ELSE IF \/ EnvTruthy(e, "ECS_CONTAINER_METADATA_URI")
            \/ EnvTruthy(e, "ECS_CONTAINER_METADATA_URI_V4")
            \/ /\ "AWS_EXECUTION_ENV" \in DOMAIN e
               /\ Includes(e["AWS_EXECUTION_ENV"], <<"E","C","S">>)
    THEN "ecs"
    ELSE IF EnvTruthy(e, "AWS_LAMBDA_FUNCTION_NAME")
    THEN "lambda"
    ELSE "console"

Platforms == {"web", "console", "lambda", "ecs"}

\* defaultStyles (index.ts 70-115); ESC stands for the character \x1b
defaultStyles ==
    [web |->
        [debug |-> "color: #888; font-style: italic;",
         info |-> "color: #0066cc; font-weight: 500;",
         success |-> "color: #28a745; font-weight: 500;",
         warn |-> "color: #ffa500; font-weight: 500;",
         error |-> "color: #dc3545; font-weight: bold;",
         time |-> "color: #6c757d;",
         title |-> "font-size: 1.5rem; font-weight: bold;",
         group |-> "color: #0066cc; font-weight: bold;",
         groupCollapsed |-> "color: #0066cc; font-weight: 500;"],
     console |->
        [debug |-> "ESC[90m(o)ESC[0m",
         info |-> "ESC[36m(i)ESC[0m",
         warn |-> "ESC[33m(!)ESC[0m",
         error |-> "ESC[31m(x)ESC[0m",
         success |-> "ESC[32m(v)ESC[0m",
         time |-> "ESC[33m(t)ESC[0m",
         title |-> "ESC[1m",
         group |-> "ESC[34m(v)ESC[0m",
         groupCollapsed |-> "ESC[34m(>)ESC[0m"],
     lambda |->
        [debug |-> "[DEBUG]",
         info |-> "[INFO]",
         warn |-> "[WARN]",
         error |-> "[ERROR]",
         success |-> "[SUCCESS]",
         time |-> "[TIME]",
         title |-> "[TITLE]",
         group |-> "[GROUP]",
         groupCollapsed |-> "[GROUP]"],
     ecs |->
        [debug |-> "DEBUG",
         info |-> "INFO",
         warn |-> "WARN",
         error |-> "ERROR",
         success |-> "INFO",
         time |-> "INFO",
         title |-> "INFO",
         group |-> "INFO",
         groupCollapsed |-> "INFO"]]

\* const envLogLevel = process.env.LOG_LEVEL?.toLowerCase()   (index.ts 170)
envLogLevel(e) ==
    IF "LOG_LEVEL" \in DOMAIN e THEN ToLowerCase(e["LOG_LEVEL"]) ELSE <<>>

\* Object.values(LogLevels).includes(envLogLevel)   (index.ts 171)
isValidLogLevel(e) ==
    /\ "LOG_LEVEL" \in DOMAIN e
    /\ \E l \in LogLevelSet : Chars[l] = envLogLevel(e)

\* options.minLogLevel ?? (isValidLogLevel ? envLogLevel : LogLevels.DEBUG)
\* (index.ts 172-173)
InitialMinLogLevel(options, e) ==
    IF "minLogLevel" \in DOMAIN options
    THEN options["minLogLevel"]
    ELSE IF isValidLogLevel(e)
         THEN CHOOSE l \in LogLevelSet : Chars[l] = envLogLevel(e)
         ELSE "debug"

\* The prefix map of a new Logger (index.ts 175-186): a string option is
\* given to every level, a mapping option is taken as it is
InitialPrefix(options) ==
    IF "prefix" \notin DOMAIN options
    THEN <<>>
    ELSE IF options["prefix"].kind = "string"
         THEN [l \in LogLevelSet |-> options["prefix"].text]
         ELSE options["prefix"].map

\* new Logger(options)   (index.ts 155-187); id is the identity of the object.
\* Of this.styles the state keeps the overrides it was merged from.
NewLogger(options, e, t, id) ==
    LET platform == Coalesce(options, "platform", detectPlatform(e))
    IN  [id               |-> id,
         platform         |-> platform,
         timeStampEnabled |-> Coalesce(options, "timestampEnabled", TRUE),
         structured       |-> Coalesce(options, "structured", platform = "ecs"),
         serviceName      |-> Coalesce(options, "serviceName", Undefined),
         correlationId    |-> Coalesce(options, "correlationId", Undefined),
         context          |-> Coalesce(options, "context", <<>>),
         customStyles     |-> Coalesce(options, "customStyles", <<>>),
         startTime        |-> t,
         minLogLevel      |-> InitialMinLogLevel(options, e),
         prefix           |-> InitialPrefix(options),
         groupLevel       |-> 0,
         timers           |-> <<>>]

(***************************************************************************)
(* Formatting.                                                             *)
(***************************************************************************)
\* A JavaScript string built by the logger, as a value
Text(tokens) == [kind |-> "text", tokens |-> tokens]

\* inspectObject (index.ts 4-35): JSON.stringify, then JSON.stringify with a
\* replacer (which fails on the same structures), then String(obj)
inspectObject(v) ==
    IF v.kind = "object"
    THEN IF v.jsonable THEN "{" \o v.name \o "}" ELSE "[object Object]"
    ELSE IF v.kind = "number" THEN ToString(v.value)
    ELSE IF v.kind = "string" THEN v.text
    ELSE v.kind

\* The callback of messages.map in formatMessages (index.ts 270-278)
Fragment(v) ==
    IF IsError(v) THEN ""
    ELSE IF v.kind = "object" THEN inspectObject(v)
    ELSE IF v.kind = "number" THEN ToString(v.value)
    ELSE IF v.kind = "string" THEN v.text
    ELSE v.kind

IsNonEmpty(f) == f # ""

\* Array.prototype.join(" "): the fragments with a space between neighbours
JoinWithSpace(frags) ==
    [i \in 1..(2 * Len(frags) - 1) |->
        IF i % 2 = 1 THEN frags[(i + 1) \div 2] ELSE " "]

\* formatMessages (index.ts 268-281)
formatMessages(msgs) ==
    JoinWithSpace(SelectSeq([i \in 1..Len(msgs) |-> Fragment(msgs[i])], IsNonEmpty))

\* getPrefix (index.ts 283-285)
getPrefix(inst, level) ==
    IF level \in DOMAIN inst.prefix /\ inst.prefix[level] # ""
    THEN <<inst.prefix[level], " ">>
    ELSE <<>>

\* Number.prototype.toFixed(3) of ms / 1000, for ms >= 0
ToFixed3(ms) ==
    LET frac == ms % 1000
    IN  ToString(ms \div 1000) \o "."
        \o (IF frac < 10 THEN "00" ELSE IF frac < 100 THEN "0" ELSE "")
        \o ToString(frac)

\* getTimestamp (index.ts 206-209)
getTimestamp(inst, t) == ToFixed3(t - inst.startTime)

\* getISOTimestamp (index.ts 211-213)
getISOTimestamp(t) == "ISO(" \o ToString(t) \o ")"

\* this.styles = { ...defaultStyles, ...(options.customStyles || {}) }
\* (index.ts 163-166): a platform the overrides name replaces the default
\* table of that platform
Styles(inst) == inst.customStyles @@ defaultStyles

\* this.styles[platform][level] inside a template literal
StyleToken(inst, platform, level) ==
    IF level \in DOMAIN Styles(inst)[platform]
    THEN Styles(inst)[platform][level]
    ELSE "undefined"

\* Priority, tabulated over the level names
PriorityOf == [l \in DOMAIN Chars |-> Priority(l)]

\* shouldLog (index.ts 287-302)
shouldLog(inst, level) ==
    IF level = "group" \/ level = "groupCollapsed"
    THEN TRUE
    ELSE PriorityOf[level] >= PriorityOf[inst.minLogLevel]

\* level.toUpperCase() (index.ts 248), tabulated over the level names
UpperCaseName == [l \in LogLevelSet |-> Flatten(ToUpperCase(Chars[l]))]

\* serializeError (index.ts 215-230)
\* A serializer that keeps only name, message and stack
serializeError_Standard(e) ==
    [kind |-> "record",
     fields |-> [name |-> Str(e.name), message |-> Str(e.message),
                 stack |-> Str(e.stack)]]

serializeError(e) ==
    [kind |-> "record",
     fields |-> e.props @@ [name |-> Str(e.name), message |-> Str(e.message),
                            stack |-> Str(e.stack)]]

\* A createStructuredLog that spreads the context first, so that the fixed
\* fields win over context keys of the same name
createStructuredLog_FixedWin(inst, level, msgs, t) ==
    LET errors == SelectErrors(msgs)
        nonErrorMessages == SelectNonErrors(msgs)
        fixed ==
            [timestamp |-> Str(getISOTimestamp(t)),
             level     |-> Str(UpperCaseName[level]),
             message   |-> IF Len(nonErrorMessages) > 0
                           THEN Text(formatMessages(nonErrorMessages))
                           ELSE Text(<<>>)]
        service == IF Truthy(inst.serviceName)
                   THEN [service |-> inst.serviceName] ELSE <<>>
        correlation == IF Truthy(inst.correlationId)
                       THEN [correlationId |-> inst.correlationId] ELSE <<>>
        logEntry == fixed @@ service @@ correlation @@ inst.context
        withErrors ==
            IF Len(errors) > 0
            THEN [errors |-> [kind |-> "array",
                              items |-> [i \in 1..Len(errors) |->
                                            serializeError(errors[i])]]]
                 @@ logEntry
            ELSE logEntry
    IN  IF inst.groupLevel > 0
        THEN [group |-> Num(inst.groupLevel)] @@ withErrors
        ELSE withErrors

\* createStructuredLog (index.ts 232-266): the record as a function from its
\* keys to values; the context is spread after the fixed fields
createStructuredLog(inst, level, msgs, t) ==
    LET errors == SelectErrors(msgs)
        nonErrorMessages == SelectNonErrors(msgs)
        fixed ==
            [timestamp |-> Str(getISOTimestamp(t)),
             level     |-> Str(UpperCaseName[level]),
             message   |-> IF Len(nonErrorMessages) > 0
                           THEN Text(formatMessages(nonErrorMessages))
                           ELSE Text(<<>>)]
        service == IF Truthy(inst.serviceName)
                   THEN [service |-> inst.serviceName] ELSE <<>>
        correlation == IF Truthy(inst.correlationId)
                       THEN [correlationId |-> inst.correlationId] ELSE <<>>
        logEntry == inst.context @@ correlation @@ service @@ fixed
        withErrors ==
            IF Len(errors) > 0
            THEN [errors |-> [kind |-> "array",
                              items |-> [i \in 1..Len(errors) |->
                                            serializeError(errors[i])]]]
                 @@ logEntry
            ELSE logEntry
    IN  IF inst.groupLevel > 0
        THEN [group |-> Num(inst.groupLevel)] @@ withErrors
        ELSE withErrors

\* JSON.stringify(structuredLog) throws (index.ts 312)
StringifyThrows(entry) ==
    \E k \in DOMAIN entry :
        \/ JsonThrows(entry[k])
        \/ /\ entry[k].kind = "array"
           /\ \E i \in 1..Len(entry[k].items) : JsonThrows(entry[k].items[i])

\* One call of console.log or console.error
Call(fn, args) == [fn |-> fn, args |-> args]

(***************************************************************************)
(* Logger.log (index.ts 304-408).  The result of a call: whether it threw, *)
(* and the console calls it made, in order.                                *)
(***************************************************************************)
\* `[${this.getTimestamp()}s]` when timestamps are enabled, else ""  (316)
TimestampTokens(inst, t) ==
    IF inst.timeStampEnabled THEN <<"[", getTimestamp(inst, t), "s]">> ELSE <<>>

\* A logger that indents by one space per group level
Indent_OneSpace(inst) == [i \in 1..inst.groupLevel |-> " "]

\* "  ".repeat(this.groupLevel)   (index.ts 318)
Indent(inst) == Repeat2Spaces(inst.groupLevel)

\* level === "error" && messages.some((msg) => msg instanceof Error)
SplitsErrors(level, msgs) == level = "error" /\ Len(SelectErrors(msgs)) > 0

\* A web branch that prints the Errors before the line of the other values
LogWeb_ErrorsFirst(inst, level, msgs) ==
    LET style == IF level \in DOMAIN Styles(inst)["web"]
                 THEN Str(Styles(inst)["web"][level]) ELSE Undefined
        line(ms) == Text(<<"%c">> \o Indent(inst) \o getPrefix(inst, level)
                         \o formatMessages(ms))
        errors == SelectErrors(msgs)
        nonErrorMessages == SelectNonErrors(msgs)
    IN  IF SplitsErrors(level, msgs)
        THEN [i \in 1..Len(errors) |-> Call("error", <<errors[i]>>)]
             \o (IF Len(nonErrorMessages) > 0
                 THEN <<Call("log", <<line(nonErrorMessages), style>>)>>
                 ELSE <<>>)
        ELSE <<Call("log", <<line(msgs), style>>)>>

\* case "web"   (index.ts 321-348)
LogWeb(inst, level, msgs) ==
    LET style == IF level \in DOMAIN Styles(inst)["web"]
                 THEN Str(Styles(inst)["web"][level]) ELSE Undefined
        line(ms) == Text(<<"%c">> \o Indent(inst) \o getPrefix(inst, level)
                         \o formatMessages(ms))
        errors == SelectErrors(msgs)
        nonErrorMessages == SelectNonErrors(msgs)
    IN  IF SplitsErrors(level, msgs)
        THEN (IF Len(nonErrorMessages) > 0
              THEN <<Call("log", <<line(nonErrorMessages), style>>)>>
              ELSE <<>>)
             \o [i \in 1..Len(errors) |-> Call("error", <<errors[i]>>)]
        ELSE <<Call("log", <<line(msgs), style>>)>>

\* case "console"   (index.ts 350-377)
LogConsole(inst, level, msgs, t) ==
    LET timestamp == TimestampTokens(inst, t)
        head == (IF timestamp # <<>>
                 THEN <<"ESC[34m">> \o timestamp \o <<"ESC[0m", " ">>
                 ELSE <<>>)
                \o <<StyleToken(inst, "console", level), " ">>
                \o Indent(inst) \o getPrefix(inst, level)
        errors == SelectErrors(msgs)
        nonErrorMessages == SelectNonErrors(msgs)
    IN  IF SplitsErrors(level, msgs)
        THEN (IF Len(nonErrorMessages) > 0
              THEN <<Call("log", <<Text(head \o formatMessages(nonErrorMessages))>>)>>
              ELSE <<>>)
             \o [i \in 1..Len(errors) |-> Call("error", <<Text(head), errors[i]>>)]
        ELSE <<Call("log", <<Text(head \o formatMessages(msgs))>>)>>

\* A lambda branch that hands prefix and Error to one console.error call
LambdaErrorCalls_OneCall(head, errors) ==
    [i \in 1..Len(errors) |-> Call("error", <<Text(head), errors[i]>>)]

\* console.error(errorPrefix); console.error(error) for each Error (395-399)
LambdaErrorCalls(head, errors) ==
    [i \in 1..(2 * Len(errors)) |->
        IF i % 2 = 1
        THEN Call("error", <<Text(head)>>)
        ELSE Call("error", <<errors[i \div 2]>>)]

\* case "lambda"   (index.ts 379-406)
LogLambda(inst, level, msgs, t) ==
    LET head == TimestampTokens(inst, t)
                \o <<" ", StyleToken(inst, "lambda", level), " ">>
                \o Indent(inst) \o getPrefix(inst, level)
        errors == SelectErrors(msgs)
        nonErrorMessages == SelectNonErrors(msgs)
    IN  IF SplitsErrors(level, msgs)
        THEN (IF Len(nonErrorMessages) > 0
              THEN <<Call("log", <<Text(head \o formatMessages(nonErrorMessages))>>)>>
              ELSE <<>>)
             \o LambdaErrorCalls(head, errors)
        ELSE <<Call("log", <<Text(head \o formatMessages(msgs))>>)>>

\* The structured branch (index.ts 310-314)
LogStructured(inst, level, msgs, t) ==
    LET structuredLog == createStructuredLog(inst, level, msgs, t)
    IN  IF StringifyThrows(structuredLog)
        THEN [out |-> <<>>, threw |-> TRUE]
        ELSE [out |-> <<Call("log", <<[kind |-> "json", entry |-> structuredLog]>>)>>,
              threw |-> FALSE]

\* A log that prints JSON only when the structured flag is set
log_StructuredFlagOnly(inst, level, msgs, t) ==
    IF ~shouldLog(inst, level)
    THEN [out |-> <<>>, threw |-> FALSE]
    ELSE IF inst.structured
    THEN LogStructured(inst, level, msgs, t)
    ELSE [out |-> CASE inst.platform = "web" -> LogWeb(inst, level, msgs)
                    [] inst.platform = "console" -> LogConsole(inst, level, msgs, t)
                    [] inst.platform = "lambda" -> LogLambda(inst, level, msgs, t)
                    [] OTHER -> <<>>,
          threw |-> FALSE]

\* Logger.log (index.ts 304-408)
log(inst, level, msgs, t) ==
    IF ~shouldLog(inst, level)
    THEN [out |-> <<>>, threw |-> FALSE]
    ELSE IF inst.structured \/ inst.platform = "ecs"
    THEN LogStructured(inst, level, msgs, t)
    ELSE [out |-> CASE inst.platform = "web" -> LogWeb(inst, level, msgs)
                    [] inst.platform = "console" -> LogConsole(inst, level, msgs, t)
                    [] inst.platform = "lambda" -> LogLambda(inst, level, msgs, t)
                    [] OTHER -> <<>>,
          threw |-> FALSE]

(***************************************************************************)
(* The public methods (index.ts 410-523).  A method's result names         *)
(*   assign  : the fields it assigns on `this` (this.f = v),               *)
(*   inplace : the fields whose object it mutates in place                 *)
(*             (this.context[k] = v, this.timers.set, Object.assign),      *)
(*   out     : the console calls it made,                                  *)
(*   threw   : whether it ended by throwing,                               *)
(*   ret     : the value it returned.                                      *)
(***************************************************************************)
Result(assign, inplace, o, threw, ret) ==
    [out |-> o, threw |-> threw, ret |-> ret, assign |-> assign, inplace |-> inplace]

\* debug / info / warn / error / success (index.ts 410-428)
LevelMethod(inst, level, msgs, t) ==
    LET r == log(inst, level, msgs, t)
    IN  Result(<<>>, <<>>, r.out, r.threw, Undefined)

\* A group method that increments the depth before it logs the header
GroupMethod_IncrementFirst(inst, level, msgs, t) ==
    LET r == log([inst EXCEPT !.groupLevel = @ + 1], level, msgs, t)
    IN  IF r.threw
        THEN Result(<<>>, <<>>, r.out, TRUE, Undefined)
        ELSE Result([groupLevel |-> inst.groupLevel + 1], <<>>, r.out, FALSE, Undefined)

\* group / groupCollapsed (index.ts 430-438): this.log(...); this.groupLevel++
GroupMethod(inst, level, msgs, t) ==
    LET r == log(inst, level, msgs, t)
    IN  IF r.threw
        THEN Result(<<>>, <<>>, r.out, TRUE, Undefined)
        ELSE Result([groupLevel |-> inst.groupLevel + 1], <<>>, r.out, FALSE, Undefined)

\* groupEnd (index.ts 440-444)
groupEnd(inst) ==
    IF inst.groupLevel > 0
    THEN Result([groupLevel |-> inst.groupLevel - 1], <<>>, <<>>, FALSE, Undefined)
    ELSE Result(<<>>, <<>>, <<>>, FALSE, Undefined)

\* A setPrefix that replaces the prefix map instead of merging into it
setPrefix_Replace(inst, newPrefix) ==
    LET newPrefixObj == IF newPrefix.kind = "string"
                        THEN [l \in LogLevelSet |-> newPrefix.text]
                        ELSE newPrefix.map
    IN  Result(<<>>, [prefix |-> newPrefixObj], <<>>, FALSE, Undefined)

\* setPrefix (index.ts 446-462): Object.assign(this.prefix, ...)
setPrefix(inst, newPrefix) ==
    LET newPrefixObj == IF newPrefix.kind = "string"
                        THEN [l \in LogLevelSet |-> newPrefix.text]
                        ELSE newPrefix.map
    IN  Result(<<>>, [prefix |-> newPrefixObj @@ inst.prefix], <<>>, FALSE, Undefined)

\* setMinLogLevel (index.ts 464-466)
\* A logger whose minimum level can be raised at run time but never lowered
setMinLogLevel_RaiseOnly(inst, level) ==
    IF Priority(level) > Priority(inst.minLogLevel)
    THEN Result([minLogLevel |-> level], <<>>, <<>>, FALSE, Undefined)
    ELSE Result(<<>>, <<>>, <<>>, FALSE, Undefined)

setMinLogLevel(inst, level) ==
    Result([minLogLevel |-> level], <<>>, <<>>, FALSE, Undefined)

\* getMinLogLevel (index.ts 468-470)
getMinLogLevel(inst) == Result(<<>>, <<>>, <<>>, FALSE, Str(inst.minLogLevel))

\* setCorrelationId (index.ts 472-474)
setCorrelationId(inst, id) ==
    Result([correlationId |-> id], <<>>, <<>>, FALSE, Undefined)

\* getCorrelationId (index.ts 476-478)
getCorrelationId(inst) == Result(<<>>, <<>>, <<>>, FALSE, inst.correlationId)

\* A setContext that merges the new map into the old one
setContext_Merge(inst, context) ==
    Result([context |-> context @@ inst.context], <<>>, <<>>, FALSE, Undefined)

\* setContext (index.ts 480-482): this.context = { ...context }
setContext(inst, context) ==
    Result([context |-> context], <<>>, <<>>, FALSE, Undefined)

\* addContext (index.ts 484-486): this.context[key] = value
addContext(inst, key, value) ==
    Result(<<>>, [context |-> (key :> value) @@ inst.context], <<>>, FALSE, Undefined)

\* removeContext (index.ts 488-490): delete this.context[key]
removeContext(inst, key) ==
    Result(<<>>,
           [context |-> [k \in DOMAIN inst.context \ {key} |-> inst.context[k]]],
           <<>>, FALSE, Undefined)

\* getContext (index.ts 492-494)
getContext(inst) ==
    Result(<<>>, <<>>, <<>>, FALSE, [kind |-> "map", map |-> inst.context])

\* clearContext (index.ts 496-498): this.context = {}
clearContext(inst) == Result([context |-> <<>>], <<>>, <<>>, FALSE, Undefined)

\* time (index.ts 500-502)
time(inst, label, t) ==
    Result(<<>>, [timers |-> (label :> t) @@ inst.timers], <<>>, FALSE, Undefined)

\* `${label}: ${duration}ms`
DurationMessage(label, duration) == Str(label \o ": " \o ToString(duration) \o "ms")

\* `Timer '${label}' does not exist`
MissingTimerMessage(label) == Str("Timer '" \o label \o "' does not exist")

\* const startTime = this.timers.get(label); if (startTime)
TimerRunning(inst, label) == label \in DOMAIN inst.timers /\ inst.timers[label] # 0

\* A timeEnd that consumes the timer only when its line is printed
timeEnd_KeepWhenFiltered(inst, label, t) ==
    IF TimerRunning(inst, label)
    THEN LET removed == [k \in DOMAIN inst.timers \ {label} |-> inst.timers[k]]
             r == log(inst, "info",
                      <<DurationMessage(label, t - inst.timers[label])>>, t)
         IN  Result(<<>>, [timers |-> IF r.out # <<>> THEN removed ELSE inst.timers],
                    r.out, r.threw, Undefined)
    ELSE LET r == log(inst, "warn", <<MissingTimerMessage(label)>>, t)
         IN  Result(<<>>, <<>>, r.out, r.threw, Undefined)

\* timeEnd (index.ts 504-513)
timeEnd(inst, label, t) ==
    IF TimerRunning(inst, label)
    THEN LET removed == [k \in DOMAIN inst.timers \ {label} |-> inst.timers[k]]
             r == log(inst, "info",
                      <<DurationMessage(label, t - inst.timers[label])>>, t)
         IN  Result(<<>>, [timers |-> removed], r.out, r.threw, Undefined)
    ELSE LET r == log(inst, "warn", <<MissingTimerMessage(label)>>, t)
         IN  Result(<<>>, <<>>, r.out, r.threw, Undefined)

\* A timeLog that consumes the timer, as timeEnd does
timeLog_Consume(inst, label, msgs, t) ==
    IF TimerRunning(inst, label)
    THEN LET removed == [k \in DOMAIN inst.timers \ {label} |-> inst.timers[k]]
             r == log(inst, "info",
                      <<DurationMessage(label, t - inst.timers[label])>> \o msgs, t)
         IN  Result(<<>>, [timers |-> removed], r.out, r.threw, Undefined)
    ELSE LET r == log(inst, "warn", <<MissingTimerMessage(label)>>, t)
         IN  Result(<<>>, <<>>, r.out, r.threw, Undefined)

\* timeLog (index.ts 515-523)
timeLog(inst, label, msgs, t) ==
    IF TimerRunning(inst, label)
    THEN LET r == log(inst, "info",
                      <<DurationMessage(label, t - inst.timers[label])>> \o msgs, t)
         IN  Result(<<>>, <<>>, r.out, r.threw, Undefined)
    ELSE LET r == log(inst, "warn", <<MissingTimerMessage(label)>>, t)
         IN  Result(<<>>, <<>>, r.out, r.threw, Undefined)

\* The method a call names, applied to the fields `this` reads
Method(inst, call, t) ==
    CASE call.op \in LogMethods -> LevelMethod(inst, call.op, call.msgs, t)
      [] call.op \in {"group", "groupCollapsed"} ->
                                        GroupMethod(inst, call.op, call.msgs, t)
      [] call.op = "groupEnd" -> groupEnd(inst)
      [] call.op = "setPrefix" -> setPrefix(inst, call.prefix)
      [] call.op = "setMinLogLevel" -> setMinLogLevel(inst, call.level)
      [] call.op = "getMinLogLevel" -> getMinLogLevel(inst)
      [] call.op = "setCorrelationId" -> setCorrelationId(inst, call.id)
      [] call.op = "getCorrelationId" -> getCorrelationId(inst)
      [] call.op = "setContext" -> setContext(inst, call.context)
      [] call.op = "addContext" -> addContext(inst, call.key, call.value)
      [] call.op = "removeContext" -> removeContext(inst, call.key)
      [] call.op = "getContext" -> getContext(inst)
      [] call.op = "clearContext" -> clearContext(inst)
      [] call.op = "time" -> time(inst, call.label, t)
      [] call.op = "timeEnd" -> timeEnd(inst, call.label, t)
      [] call.op = "timeLog" -> timeLog(inst, call.label, call.msgs, t)

(***************************************************************************)
(* The state machine.                                                      *)
(***************************************************************************)
LoggerRef(inst) == [kind |-> "logger", id |-> inst.id]

\* The state after the module is loaded: no Logger yet, an empty Proxy target
InitWith(envs) ==
    /\ env \in envs
    /\ now = 1
    /\ instance = Null
    /\ target = <<>>
    /\ nextId = 0
    /\ out = <<>>
    /\ last = NoCall
    /\ release = NotRunning

\* A getInstance that constructs a new Logger whenever it is given options
getInstance_Reconfigure(entry, options) ==
    /\ (instance = Null \/ options # <<>>) => nextId < MaxInstances
    /\ instance' = IF instance = Null \/ options # <<>>
                   THEN NewLogger(options, env, now, nextId + 1)
                   ELSE instance
    /\ nextId' = IF instance = Null \/ options # <<>> THEN nextId + 1 ELSE nextId
    /\ out' = <<>>
    /\ last' = [op |-> entry, via |-> "static",
                call |-> [op |-> entry, options |-> options],
                constructed |-> instance = Null,
                threw |-> FALSE, ret |-> LoggerRef(instance')]
    /\ UNCHANGED <<release, env, now, target>>

\* A resetInstance that leaves the singleton in place
resetInstance_Keep ==
    /\ instance' = instance
    /\ out' = <<>>
    /\ last' = [op |-> "resetInstance", via |-> "static",
                call |-> [op |-> "resetInstance"],
                constructed |-> FALSE, threw |-> FALSE, ret |-> Undefined]
    /\ UNCHANGED <<release, env, now, target, nextId>>

\* Logger.getInstance(options) (index.ts 192-197), also through createLogger
\* (index.ts 526-528)
getInstance(entry, options) ==
    /\ instance = Null => nextId < MaxInstances
    /\ instance' = IF instance = Null
                   THEN NewLogger(options, env, now, nextId + 1)
                   ELSE instance
    /\ nextId' = IF instance = Null THEN nextId + 1 ELSE nextId
    /\ out' = <<>>
    /\ last' = [op |-> entry, via |-> "static",
                call |-> [op |-> entry, options |-> options],
                constructed |-> instance = Null,
                threw |-> FALSE, ret |-> LoggerRef(instance')]
    /\ UNCHANGED <<release, env, now, target>>

\* Logger.resetInstance() (index.ts 202-204)
resetInstance ==
    /\ instance' = Null
    /\ out' = <<>>
    /\ last' = [op |-> "resetInstance", via |-> "static",
                call |-> [op |-> "resetInstance"],
                constructed |-> FALSE, threw |-> FALSE, ret |-> Undefined]
    /\ UNCHANGED <<release, env, now, target, nextId>>

\* The Logger a method call reads its fields from: the receiver itself, or,
\* through the Proxy's get trap (index.ts 530-535), Logger.getInstance()
Receiver == IF instance = Null THEN NewLogger(<<>>, env, now, nextId + 1) ELSE instance

\* A method call.  via = "instance": on the object getInstance() returned.
\* via = "handle": on the exported `logger`, so `this` is the Proxy: every
\* read goes to the singleton (the get trap), every `this.f = v` lands on the
\* Proxy's target object (there is no set trap), which nothing reads.
Invoke(via, call) ==
    /\ via = "instance" => instance # Null
    /\ (via = "handle" /\ instance = Null) => nextId < MaxInstances
    /\ \E this \in {Receiver} : \E r \in {Method(this, call, now)} :
           /\ instance' = IF via = "instance"
                          THEN r.assign @@ r.inplace @@ this
                          ELSE r.inplace @@ this
           /\ target' = IF via = "handle" THEN r.assign @@ target ELSE target
           /\ out' = r.out
           /\ last' = [op |-> call.op, via |-> via, call |-> call,
                       constructed |-> instance = Null,
                       threw |-> r.threw, ret |-> r.ret]
    /\ nextId' = IF instance = Null THEN nextId + 1 ELSE nextId
    /\ UNCHANGED <<release, env, now>>

\* Date.now() advances
Tick ==
    /\ now < MaxNow
    /\ now' = now + 1
    /\ UNCHANGED <<release, env, instance, target, nextId, out, last>>

\* The receivers of a method call: the Logger instance, the exported handle
Receivers == {"instance", "handle"}

Debug(via, msgs) ==
    /\ via \in Receivers
    /\ Invoke(via, [op |-> "debug", msgs |-> msgs])
Info(via, msgs) ==
    /\ via \in Receivers
    /\ Invoke(via, [op |-> "info", msgs |-> msgs])
Warn(via, msgs) ==
    /\ via \in Receivers
    /\ Invoke(via, [op |-> "warn", msgs |-> msgs])
Error(via, msgs) ==
    /\ via \in Receivers
    /\ Invoke(via, [op |-> "error", msgs |-> msgs])
Success(via, msgs) ==
    /\ via \in Receivers
    /\ Invoke(via, [op |-> "success", msgs |-> msgs])
Group(via, msgs) ==
    /\ via \in Receivers
    /\ Receiver.groupLevel < MaxDepth
    /\ Invoke(via, [op |-> "group", msgs |-> msgs])
GroupCollapsed(via, msgs) ==
    /\ via \in Receivers
    /\ Receiver.groupLevel < MaxDepth
    /\ Invoke(via, [op |-> "groupCollapsed", msgs |-> msgs])
GroupEnd(via) ==
    /\ via \in Receivers
    /\ Invoke(via, [op |-> "groupEnd"])
SetPrefix(via, prefix) ==
    /\ via \in Receivers
    /\ Invoke(via, [op |-> "setPrefix", prefix |-> prefix])
SetMinLogLevel(via, level) ==
    /\ via \in Receivers
    /\ Invoke(via, [op |-> "setMinLogLevel", level |-> level])
GetMinLogLevel(via) ==
    /\ via \in Receivers
    /\ Invoke(via, [op |-> "getMinLogLevel"])
SetCorrelationId(via, id) ==
    /\ via \in Receivers
    /\ Invoke(via, [op |-> "setCorrelationId", id |-> id])
GetCorrelationId(via) ==
    /\ via \in Receivers
    /\ Invoke(via, [op |-> "getCorrelationId"])
SetContext(via, context) ==
    /\ via \in Receivers
    /\ Invoke(via, [op |-> "setContext", context |-> context])
AddContext(via, key, value) ==
    /\ via \in Receivers
    /\ Invoke(via, [op |-> "addContext", key |-> key, value |-> value])
RemoveContext(via, key) ==
    /\ via \in Receivers
    /\ Invoke(via, [op |-> "removeContext", key |-> key])
GetContext(via) ==
    /\ via \in Receivers
    /\ Invoke(via, [op |-> "getContext"])
ClearContext(via) ==
    /\ via \in Receivers
    /\ Invoke(via, [op |-> "clearContext"])
Time(via, label) ==
    /\ via \in Receivers
    /\ Invoke(via, [op |-> "time", label |-> label])
TimeEnd(via, label) ==
    /\ via \in Receivers
    /\ Invoke(via, [op |-> "timeEnd", label |-> label])
TimeLog(via, label, msgs) ==
    /\ via \in Receivers
    /\ Invoke(via, [op |-> "timeLog", msgs |-> msgs, label |-> label])

(***************************************************************************)
(* Inputs.                                                                 *)
(***************************************************************************)
\* An optional property: absent, or one of the values
Opt(name, values) == {<<>>} \cup {name :> v : v \in values}

ErrA == Err("ErrA", TRUE)
ErrB == Err("ErrB", TRUE)

\* An Error with a circular custom property (an HTTP client's error holding
\* its request, say)
ErrCircular == Err("ErrCircular", FALSE)

\* An object that refers to itself
Circular == Obj("circular", FALSE)

\* Argument lists of a log call
Messages ==
    { <<Str("a")>>, <<Str("a"), ErrA>>, <<ErrA, ErrB>>, <<Str("a"), ErrCircular>> }

(***************************************************************************)
(* Spec: one logger, constructed once, used through the reference that     *)
(* getInstance returned: level methods, groups, the runtime level.         *)
(***************************************************************************)
Options ==
    { a @@ b @@ c :
        a \in Opt("platform", Platforms),
        b \in Opt("structured", BOOLEAN),
        c \in Opt("context", {[self |-> Circular]}) }
    \cup
    { a @@ [timestampEnabled |-> FALSE] : a \in Opt("platform", Platforms) }

Init == InitWith({<<>>})

Next ==
    \/ \E o \in Options : instance = Null /\ getInstance("getInstance", o)
    \/ \E m \in Messages : Debug("instance", m)
    \/ \E m \in Messages : Info("instance", m)
    \/ \E m \in Messages : Warn("instance", m)
    \/ \E m \in Messages : Error("instance", m)
    \/ \E m \in Messages : Success("instance", m)
    \/ \E m \in Messages : Group("instance", m)
    \/ \E m \in Messages : GroupCollapsed("instance", m)
    \/ GroupEnd("instance")
    \/ \E l \in LogLevelSet : SetMinLogLevel("instance", l)
    \/ GetMinLogLevel("instance")

Spec == Init /\ [][Next]_vars

(***************************************************************************)
(* Properties of Spec.                                                     *)
(***************************************************************************)
\* The logger prints JSON records: this.structured || this.platform === "ecs"
IsStructured(inst) == inst.structured \/ inst.platform = "ecs"

\* The last operation was method `op` called on the Logger instance
CalledOnInstance(ops) ==
    instance # Null /\ last.via = "instance" /\ last.op \in ops

\* C1: level filtering.  For levels L and minimum levels M among debug, info,
\* warn, error, success, in structured and in non-structured mode, a call
\* L(...) without Error arguments makes no output call when
\* priority(L) < priority(M) and exactly one output call otherwise.
C1_LevelFiltering ==
    (/\ CalledOnInstance(LogMethods)
     /\ instance.minLogLevel \in LogMethods
     /\ SelectErrors(last.call.msgs) = <<>>)
    => Len(out) = (IF PriorityOf[last.op] < PriorityOf[instance.minLogLevel]
                   THEN 0 ELSE 1)

\* C2: the group depth is never negative; each group / groupCollapsed adds
\* exactly 1, each groupEnd subtracts exactly 1 when the depth is positive and
\* leaves it at 0 otherwise, and groupEnd produces no output.
C2_GroupDepth ==
    [][(instance # Null /\ instance' # Null /\ last'.via = "instance")
       => /\ instance'.groupLevel >= 0
          /\ last'.op \in {"group", "groupCollapsed"}
                => instance'.groupLevel = instance.groupLevel + 1
          /\ last'.op = "groupEnd"
                => /\ instance'.groupLevel =
                          (IF instance.groupLevel > 0
                           THEN instance.groupLevel - 1 ELSE 0)
                   /\ out' = <<>>]_vars

\* The number of tokens of a rendered line that precede the indentation:
\* "%c" on web; the coloured timestamp and its space, the level symbol and its
\* space on console; the timestamp, a space, the level tag and a space on lambda
HeadLen(inst) ==
    CASE inst.platform = "web" -> 1
      [] inst.platform = "console" -> (IF inst.timeStampEnabled THEN 6 ELSE 0) + 2
      [] inst.platform = "lambda" -> (IF inst.timeStampEnabled THEN 3 ELSE 0) + 3

\* The number of consecutive spaces of `tokens` from position `from` on
SpacesFrom(tokens, from) ==
    CHOOSE n \in 0..Len(tokens) :
        /\ \A i \in from..(from + n - 1) : i <= Len(tokens) /\ tokens[i] = " "
        /\ (from + n > Len(tokens) \/ tokens[from + n] # " ")

\* The group depth at the time of the last call: group and groupCollapsed
\* print first and increment afterwards
DepthAtCall ==
    IF last.op \in {"group", "groupCollapsed"} /\ ~last.threw
    THEN instance.groupLevel - 1
    ELSE instance.groupLevel

C9_GroupHeader ==
    [][(instance # Null /\ last'.via = "instance"
        /\ last'.op \in {"group", "groupCollapsed"})
       => /\ Len(out') = 1
          /\ out'[1].fn = "log"
          /\ instance'.groupLevel = instance.groupLevel + 1]_vars

\* C10: in structured mode every log call that passes the level filter makes
\* exactly one console.log call carrying one JSON record and no console.error
\* call, whatever the level and however many Error arguments are passed; a
\* call that does not pass the filter makes no output call.
C10_StructuredOneRecord ==
    (CalledOnInstance(LogLevelSet) /\ IsStructured(instance))
    => IF shouldLog(instance, last.op)
       THEN /\ Len(out) = 1
            /\ out[1].fn = "log"
            /\ out[1].args[1].kind = "json"
       ELSE out = <<>>

(***************************************************************************)
(* SpecLevel: the minimum level, from the minLogLevel option, from         *)
(* process.env.LOG_LEVEL and from setMinLogLevel; loggers are constructed, *)
(* reset and constructed again.                                            *)
(***************************************************************************)
EnvLogLevel(chars) == [LOG_LEVEL |-> chars]

\* process.env with LOG_LEVEL unset, ERROR, Warn, group, groupCollapsed,
\* GROUPCOLLAPSED, INVALID_LEVEL and the empty string
LevelEnvs ==
    { <<>>,
      EnvLogLevel(<<"E","R","R","O","R">>),
      EnvLogLevel(<<"W","a","r","n">>),
      EnvLogLevel(<<"g","r","o","u","p">>),
      EnvLogLevel(<<"g","r","o","u","p","C","o","l","l","a","p","s","e","d">>),
      EnvLogLevel(<<"G","R","O","U","P","C","O","L","L","A","P","S","E","D">>),
      EnvLogLevel(<<"I","N","V","A","L","I","D","_","L","E","V","E","L">>),
      EnvLogLevel(<<>>) }

LevelOptions ==
    { a @@ b : a \in Opt("minLogLevel", {"info", "groupCollapsed"}),
               b \in Opt("platform", {"ecs"}) }

InitLevel == InitWith(LevelEnvs)

NextLevel ==
    \/ \E o \in LevelOptions : instance = Null /\ getInstance("getInstance", o)
    \/ instance # Null /\ resetInstance
    \/ Debug("instance", <<Str("a")>>)
    \/ Info("instance", <<Str("a")>>)
    \/ Warn("instance", <<Str("a")>>)
    \/ Error("instance", <<Str("a"), ErrA>>)
    \/ Success("instance", <<Str("a")>>)
    \/ \E l \in DOMAIN Chars : SetMinLogLevel("instance", l)
    \/ GetMinLogLevel("instance")

SpecLevel == InitLevel /\ [][NextLevel]_vars

\* The level C7 states for a new logger: the minLogLevel option when given,
\* else the level that LOG_LEVEL names when compared case-insensitively,
\* else debug
StatedInitialLevel(options, e) ==
    IF "minLogLevel" \in DOMAIN options
    THEN options["minLogLevel"]
    ELSE IF /\ "LOG_LEVEL" \in DOMAIN e
            /\ \E l \in LogLevelSet :
                   ToLowerCase(Chars[l]) = ToLowerCase(e["LOG_LEVEL"])
         THEN CHOOSE l \in LogLevelSet :
                   ToLowerCase(Chars[l]) = ToLowerCase(e["LOG_LEVEL"])
         ELSE "debug"

\* C7: the minimum level of a new logger is the minLogLevel option when given;
\* otherwise the level that LOG_LEVEL names, compared case-insensitively, when
\* it names a recognized level; otherwise debug.
C7_InitialLevel ==
    (last.op = "getInstance" /\ last.constructed)
    => instance.minLogLevel = StatedInitialLevel(last.call.options, env)

\* C8: after setMinLogLevel(M) the minimum level is M, getMinLogLevel()
\* returns it, it stays M until the next setMinLogLevel, and every log call
\* is filtered against it: a call below M prints nothing and returns, a call
\* at or above M reaches the output stage; whatever the level at construction.
C8_RuntimeLevel ==
    [][(instance' # Null /\ last'.via = "instance")
       => /\ last'.op = "setMinLogLevel"
                => instance'.minLogLevel = last'.call.level
          /\ last'.op # "setMinLogLevel"
                => instance'.minLogLevel = instance.minLogLevel
          /\ last'.op = "getMinLogLevel"
                => last'.ret = Str(instance.minLogLevel)
          /\ (last'.op \in LogMethods /\ instance.minLogLevel \in LogMethods)
                => IF PriorityOf[last'.op] >= PriorityOf[instance.minLogLevel]
                   THEN out' # <<>> \/ last'.threw
                   ELSE out' = <<>> /\ ~last'.threw]_vars

\* Reached: the process started with LOG_LEVEL=Warn, the level was set to
\* success at run time, and an error(...) call printed nothing
C8_Witness ==
    /\ env = EnvLogLevel(<<"W","a","r","n">>)
    /\ CalledOnInstance({"error"})
    /\ instance.minLogLevel = "success"
    /\ out = <<>> /\ ~last.threw

(***************************************************************************)
(* SpecHandle: the singleton and the exported handle.  Loggers are         *)
(* constructed by getInstance and createLogger, reset and constructed      *)
(* again; methods are called on the instance and through `logger`.         *)
(***************************************************************************)
UserContext == [user |-> Str("u1")]

HandleOptions ==
    { <<>>,
      [minLogLevel |-> "warn", correlationId |-> Str("c1"), context |-> UserContext] }

NextHandle ==
    \/ \E o \in HandleOptions : getInstance("getInstance", o)
    \/ \E o \in HandleOptions : getInstance("createLogger", o)
    \/ instance # Null /\ resetInstance
    \/ \E via \in Receivers : Warn(via, <<Str("a")>>)
    \/ \E via \in Receivers : Group(via, <<Str("a")>>)
    \/ \E via \in Receivers : GroupEnd(via)
    \/ \E via \in Receivers : SetMinLogLevel(via, "error")
    \/ \E via \in Receivers : GetMinLogLevel(via)
    \/ \E via \in Receivers : SetContext(via, [request |-> Str("r1")])
    \/ \E via \in Receivers : AddContext(via, "user", Str("u2"))
    \/ \E via \in Receivers : GetContext(via)

SpecHandle == Init /\ [][NextHandle]_vars

\* C4: singleton memoization.  While an instance exists, every getInstance
\* (config) and createLogger(config) returns that same instance and changes
\* none of its fields, whatever the config; an instance is constructed only
\* when none exists.
C4_Memoization ==
    [][(last'.op \in {"getInstance", "createLogger"} /\ instance # Null)
       => /\ instance' = instance
          /\ last'.ret = LoggerRef(instance)
          /\ ~last'.constructed]_vars

\* Reached: createLogger was given a minLogLevel, a context and a correlation
\* id while a logger configured without them existed
C4_Witness ==
    /\ last.op = "createLogger" /\ ~last.constructed
    /\ last.call.options # <<>>
    /\ instance.minLogLevel = "debug"
    /\ instance.correlationId = Undefined

\* C5: reset and reconfigure.  The getInstance(config') that follows
\* resetInstance() constructs a new instance, with a new identity, configured
\* from config', with group depth 0, no timers, and the context and
\* correlation id of config'; getInstance returns the current instance, and a
\* read through the handle `logger` is a read of the current instance.
C5_ResetReconfigure ==
    [][/\ (last.op = "resetInstance"
           /\ last'.op \in {"getInstance", "createLogger"})
          => /\ last'.constructed
             /\ instance' # Null
             /\ instance'.id = nextId + 1
             /\ last'.ret = LoggerRef(instance')
             /\ instance'.groupLevel = 0
             /\ instance'.timers = <<>>
             /\ instance'.context = Coalesce(last'.call.options, "context", <<>>)
             /\ instance'.correlationId =
                    Coalesce(last'.call.options, "correlationId", Undefined)
             /\ instance'.minLogLevel =
                    Coalesce(last'.call.options, "minLogLevel", "debug")
       /\ (last'.op \in {"getInstance", "createLogger"})
          => last'.ret = LoggerRef(instance')
       /\ (last'.via = "handle" /\ instance # Null)
          => /\ instance'.id = instance.id
             /\ last'.op = "getMinLogLevel"
                   => last'.ret = Str(instance.minLogLevel)
             /\ last'.op = "getContext"
                   => last'.ret = [kind |-> "map", map |-> instance.context]
             /\ last'.op = "warn"
                   => out' = log(instance, "warn", last'.call.msgs, now).out]_vars

\* Reached: the second logger, constructed after a reset with minLogLevel
\* "warn", answered getMinLogLevel() through the handle
C5_Witness ==
    /\ instance # Null /\ instance.id = 2
    /\ last.via = "handle" /\ last.op = "getMinLogLevel"
    /\ last.ret = Str("warn")

\* The singleton after `call` is made on the instance itself
EffectOnInstance(this, call) ==
    LET r == Method(this, call, now)
    IN  r.assign @@ r.inplace @@ this

\* C6: the handle is a transparent delegate.  Every operation invoked through
\* `logger` leaves the singleton in the state, and prints the output, that
\* the same operation invoked on the instance would.
C6_TransparentHandle ==
    [][last'.via = "handle"
       => /\ instance' = EffectOnInstance(Receiver, last'.call)
          /\ out' = Method(Receiver, last'.call, now).out]_vars

(***************************************************************************)
(* SpecRecord: the JSON record of a structured logger, with and without a  *)
(* service name, a correlation id and a context, inside and outside        *)
(* groups; the correlation id and the context change at run time.          *)
(***************************************************************************)
\* An Error with a custom property, as an HTTP client throws
ErrStatus == ErrWith("HttpError", "not found", [statusCode |-> Num(404)])

RecordMessages ==
    { <<Str("a")>>, <<ErrStatus>>, <<Str("a"), ErrA, Str("b"), ErrStatus>> }

\* A context whose keys are the names of the fixed fields of a record
FixedNamesContext ==
    [timestamp |-> Str("ctx"), level |-> Str("ctx"), message |-> Str("ctx"),
     service |-> Str("ctx"), correlationId |-> Str("ctx")]

\* A context that records the user's group and the errors seen so far
GroupErrorsContext == [group |-> Str("admins"), errors |-> Num(0)]

RecordOptions ==
    { [structured |-> TRUE] @@ a @@ b @@ c :
        a \in Opt("serviceName", {Str("svc"), Str("")}),
        b \in Opt("correlationId", {Str("c1")}),
        c \in Opt("context", {UserContext, FixedNamesContext, GroupErrorsContext}) }

NextRecord ==
    \/ \E o \in RecordOptions : instance = Null /\ getInstance("getInstance", o)
    \/ \E m \in RecordMessages : Info("instance", m)
    \/ \E m \in RecordMessages : Error("instance", m)
    \/ \E m \in RecordMessages : Group("instance", m)
    \/ GroupCollapsed("instance", <<Str("a")>>)
    \/ GroupEnd("instance")
    \/ \E id \in {Str("c2"), Str("")} : SetCorrelationId("instance", id)
    \/ GetCorrelationId("instance")
    \/ SetContext("instance", [a |-> Num(1)])
    \/ AddContext("instance", "b", Num(2))
    \/ AddContext("instance", "group", Str("admins"))
    \/ RemoveContext("instance", "a")
    \/ ClearContext("instance")
    \/ GetContext("instance")

SpecRecord == Init /\ [][NextRecord]_vars

\* The last operation was a log call on the instance that printed one JSON
\* record
RecordEmitted ==
    /\ CalledOnInstance(LogLevelSet)
    /\ Len(out) = 1
    /\ out[1].args[1].kind = "json"

\* That record, as a function from its field names to values
Emitted == out[1].args[1].entry

\* Entry i of the `errors` field serializes Error e: its name, message and
\* stack and each of its custom properties, and nothing else
SerializesError(item, e) ==
    /\ item.kind = "record"
    /\ DOMAIN item.fields = {"name", "message", "stack"} \cup DOMAIN e.props
    /\ item.fields["name"] = Str(e.name)
    /\ item.fields["message"] = Str(e.message)
    /\ item.fields["stack"] = Str(e.stack)
    /\ \A k \in DOMAIN e.props : item.fields[k] = e.props[k]

\* The `errors` field holds one entry per Error argument, in argument order
ErrorsSerialized(entry, errors) ==
    /\ "errors" \in DOMAIN entry
    /\ entry["errors"].kind = "array"
    /\ Len(entry["errors"].items) = Len(errors)
    /\ \A i \in 1..Len(errors) : SerializesError(entry["errors"].items[i], errors[i])

\* The `message` field is the formatted non-Error arguments, the empty string
\* when there are none (a context key `message` overrides it: C13)
MessageFormatted(entry, msgs) ==
    "message" \notin DOMAIN instance.context
    => entry["message"] =
           (IF SelectNonErrors(msgs) = <<>>
            THEN Text(<<>>)
            ELSE Text(formatMessages(SelectNonErrors(msgs))))

C12_StructuredIffOptionOrEcs ==
    [][instance' # Null
       => /\ (last'.op = "getInstance" /\ last'.constructed)
                => instance'.structured =
                       Coalesce(last'.call.options, "structured",
                                instance'.platform = "ecs")
          /\ (instance # Null /\ instance.id = instance'.id)
                => /\ instance'.structured = instance.structured
                   /\ instance'.platform = instance.platform
          /\ (/\ last'.via = "instance" /\ last'.op \in LogLevelSet
              /\ shouldLog(instance', last'.op) /\ ~last'.threw)
                => /\ out' # <<>>
                   /\ \A i \in 1..Len(out') :
                          (out'[i].args[1].kind = "json")
                          <=> (instance'.structured \/ instance'.platform = "ecs")]_vars

\* Reached: a logger constructed with platform ecs and structured: false
\* printed a JSON record
C12_Witness ==
    /\ RecordEmitted
    /\ instance.platform = "ecs" /\ ~instance.structured

\* Field `name` of the record is present exactly when `present`, with `value`
FieldIff(entry, name, present, value) ==
    /\ (name \in DOMAIN entry) <=> present
    /\ present => entry[name] = value

C14_GroupFieldIffDepth ==
    RecordEmitted
    => /\ FieldIff(Emitted, "group", DepthAtCall > 0, Num(DepthAtCall))
       /\ (last.op = "group" /\ "level" \notin DOMAIN instance.context)
             => Emitted.level = Str("GROUP")

\* C14, amended: when the group depth at the time of the call is positive the
\* record has a `group` field whose value is that depth; at depth 0 the
\* record has a `group` field only if the context has an entry `group`, and
\* its value is then the context's; the header record of group /
\* groupCollapsed carries the depth before the increment, and unless the
\* context names `level` its level is "GROUP" for group and "GROUPCOLLAPSED"
\* for groupCollapsed.
C14_GroupField ==
    RecordEmitted
    => /\ DepthAtCall > 0
             => "group" \in DOMAIN Emitted /\ Emitted.group = Num(DepthAtCall)
       /\ DepthAtCall = 0
             => FieldIff(Emitted, "group", "group" \in DOMAIN instance.context,
                         IF "group" \in DOMAIN instance.context
                         THEN instance.context.group ELSE Undefined)
       /\ "level" \notin DOMAIN instance.context
             => /\ last.op = "group" => Emitted.level = Str("GROUP")
                /\ last.op = "groupCollapsed"
                      => Emitted.level = Str("GROUPCOLLAPSED")

\* Reached: a log call made inside one open group printed a record with
\* group = 1
C14_Witness ==
    /\ RecordEmitted
    /\ last.op = "info"
    /\ instance.groupLevel = 1
    /\ "group" \notin DOMAIN instance.context
    /\ Emitted.group = Num(1)

\* Reached: the header record of a second-level group carries depth 1, the
\* header of a top-level group carries no `group` field
GroupHeaderEmitted ==
    /\ RecordEmitted
    /\ last.op \in {"group", "groupCollapsed"}
    /\ "group" \notin DOMAIN instance.context
    /\ \/ instance.groupLevel = 2 /\ Emitted.group = Num(1)
       \/ instance.groupLevel = 1 /\ "group" \notin DOMAIN Emitted

\* Map m without key k
Without(m, k) == [x \in DOMAIN m \ {k} |-> m[x]]

\* C15: on the instance, setContext(m) makes the context exactly m,
\* addContext(k, v) sets k to v and leaves every other key as it was,
\* removeContext(k) removes k and leaves every other key as it was (no effect
\* when k is absent), clearContext() makes the context empty, getContext()
\* returns the context and leaves it as it was; none of them throws.
C15_ContextRoundTrip ==
    [][(instance # Null /\ last'.via = "instance")
       => LET before == instance.context
              after  == instance'.context
              call   == last'.call
          IN  /\ last'.op \in {"setContext", "addContext", "removeContext",
                               "clearContext", "getContext"} => ~last'.threw
              /\ last'.op = "setContext" => after = call.context
              /\ last'.op = "addContext"
                    => /\ DOMAIN after = DOMAIN before \cup {call.key}
                       /\ after[call.key] = call.value
                       /\ Without(after, call.key) = Without(before, call.key)
              /\ last'.op = "removeContext"
                    => /\ after = Without(before, call.key)
                       /\ call.key \notin DOMAIN before => after = before
              /\ last'.op = "clearContext" => after = <<>>
              /\ last'.op = "getContext"
                    => /\ after = before
                       /\ last'.ret = [kind |-> "map", map |-> before]]_vars

\* Reached: getContext() on the instance returned the context {b: 2}
C15_Witness ==
    /\ CalledOnInstance({"getContext"})
    /\ last.ret = [kind |-> "map", map |-> [b |-> Num(2)]]

(***************************************************************************)
(* SpecTimer: the timers.  One logger per behaviour, on each platform and  *)
(* in structured mode, with a context JSON can and cannot serialize; the   *)
(* clock advances between calls; timers are started, read and ended on two *)
(* labels between log calls, group calls, level changes and context        *)
(* changes.                                                                *)
(***************************************************************************)
TimerLabels == {"x", "y"}

TimerOptions ==
    { <<>>, [platform |-> "web"], [structured |-> TRUE],
      [structured |-> TRUE, context |-> [self |-> Circular]] }

\* Extra values of a timeLog call
TimerMessages == { <<>>, <<Str("a")>> }

NextTimer ==
    \/ \E o \in TimerOptions : instance = Null /\ getInstance("getInstance", o)
    \/ instance # Null /\ Tick
    \/ \E l \in TimerLabels : Time("instance", l)
    \/ \E l \in TimerLabels : TimeEnd("instance", l)
    \/ \E l \in TimerLabels, m \in TimerMessages : TimeLog("instance", l, m)
    \/ Info("instance", <<Str("a")>>)
    \/ Group("instance", <<Str("a")>>)
    \/ GroupEnd("instance")
    \/ \E level \in {"debug", "warn", "error"} : SetMinLogLevel("instance", level)
    \/ AddContext("instance", "a", Num(1))
    \/ ClearContext("instance")

SpecTimer == Init /\ [][NextTimer]_vars

\* Sequence `tokens` ends with sequence `suffix`
EndsWith(tokens, suffix) ==
    /\ Len(suffix) <= Len(tokens)
    /\ SubSeq(tokens, Len(tokens) - Len(suffix) + 1, Len(tokens)) = suffix

\* The console calls `o` are one line at `level` carrying the values `msgs`:
\* one console.log call, in structured mode of a record with that level and
\* the formatted values as its message, otherwise of a string that ends with
\* the formatted values
OneLine(o, inst, level, msgs) ==
    /\ Len(o) = 1
    /\ o[1].fn = "log"
    /\ \/ /\ o[1].args[1].kind = "json"
          /\ o[1].args[1].entry.level = Str(UpperCaseName[level])
          /\ o[1].args[1].entry.message = Text(formatMessages(msgs))
       \/ /\ o[1].args[1].kind = "text"
          /\ ~IsStructured(inst)
          /\ EndsWith(o[1].args[1].tokens, formatMessages(msgs))
          /\ inst.platform = "console"
                => StyleToken(inst, "console", level)
                       \in {o[1].args[1].tokens[i] : i \in 1..Len(o[1].args[1].tokens)}
          /\ inst.platform = "web"
                => o[1].args[2] = Str(Styles(inst)["web"][level])

\* This step is a call of one of the methods `ops` on the instance (the
\* clock does not advance during a call)
TimerCall(ops) ==
    /\ instance # Null
    /\ now' = now
    /\ last'.via = "instance"
    /\ last'.op \in ops

\* C16: when `label` has an active timer, timeEnd(label) removes the label
\* and, the info level passing the filter, emits one info-level line
\* "<label>: <ms>ms" with a non-negative elapsed time; a timeEnd(label) on a
\* label without a timer, the warn level passing the filter, emits the
\* warning "Timer '<label>' does not exist".
C16_TimeEnd ==
    [][TimerCall({"timeEnd"})
       => LET label == last'.call.label
          IN  /\ label \notin DOMAIN instance'.timers
              /\ (TimerRunning(instance, label) /\ shouldLog(instance, "info"))
                    => /\ now - instance.timers[label] >= 0
                       /\ OneLine(out', instance, "info",
                                  <<DurationMessage(label,
                                                    now - instance.timers[label])>>)
              /\ (~TimerRunning(instance, label) /\ shouldLog(instance, "warn"))
                    => OneLine(out', instance, "warn",
                               <<MissingTimerMessage(label)>>)]_vars

\* C17: timeEnd(label) or timeLog(label, ...) on a label with no active timer
\* does not throw, changes no logger state and, the warn level passing the
\* filter, emits the warning line "Timer '<label>' does not exist".
C17_MissingTimer ==
    [][(TimerCall({"timeEnd", "timeLog"})
        /\ ~TimerRunning(instance, last'.call.label))
       => /\ ~last'.threw
          /\ instance' = instance
          /\ shouldLog(instance, "warn")
                => OneLine(out', instance, "warn",
                           <<MissingTimerMessage(last'.call.label)>>)]_vars

\* C18: once time(label) has been called, the label stays an active timer of
\* the instance, with its start time, through every operation other than
\* timeEnd(label) and a new time(label); timeLog(label, ...) leaves it in
\* place, and the line it prints when it returns is the info-level line
\* "<label>: <ms>ms" followed by the extra values.
C18_TimerPersistence ==
    [][(instance # Null /\ instance' # Null /\ instance'.id = instance.id)
       => /\ \A label \in DOMAIN instance.timers :
                 \/ TimerCall({"timeEnd"}) /\ last'.call.label = label
                 \/ /\ label \in DOMAIN instance'.timers
                    /\ \/ instance'.timers[label] = instance.timers[label]
                       \/ TimerCall({"time"}) /\ last'.call.label = label
          /\ TimerCall({"time"}) => instance'.timers[last'.call.label] = now
          /\ (/\ TimerCall({"timeLog"}) /\ TimerRunning(instance, last'.call.label)
              /\ shouldLog(instance, "info") /\ ~last'.threw)
                => OneLine(out', instance, "info",
                           <<DurationMessage(last'.call.label,
                                             now - instance.timers[last'.call.label])>>
                           \o last'.call.msgs)]_vars

\* Reached: timeLog("x", "a") printed "x: 2ms a" two ticks after time("x"),
\* a timer on "y" was started and ended in between, and "x" is still active
C18_Witness ==
    /\ CalledOnInstance({"timeLog"})
    /\ last.call = [op |-> "timeLog", msgs |-> <<Str("a")>>, label |-> "x"]
    /\ "x" \in DOMAIN instance.timers
    /\ "y" \notin DOMAIN instance.timers
    /\ now - instance.timers["x"] = 2
    /\ OneLine(out, instance, "info", <<Str("x: 2ms"), Str("a")>>)

(***************************************************************************)
(* SpecPlatform: platform selection.  The process starts in one of the     *)
(* environments below (with and without a window global, with and without  *)
(* a document; the ECS and Lambda variables unset, empty and set); loggers *)
(* are created with and without the platform option, reset and re-created. *)
(***************************************************************************)
\* A metadata URI, a function name
SomeValue == <<"v">>

\* AWS_EXECUTION_ENV on Fargate and on Lambda
ExecutionEnvs ==
    { <<"A","W","S","_","E","C","S","_","F","A","R","G","A","T","E">>,
      <<"A","W","S","_","L","a","m","b","d","a","_","n","o","d","e","j","s">> }

PlatformEnvs ==
    { w @@ u @@ u4 @@ x @@ f :
        w  \in Opt("window", BOOLEAN),
        u  \in Opt("ECS_CONTAINER_METADATA_URI", {<<>>, SomeValue}),
        u4 \in Opt("ECS_CONTAINER_METADATA_URI_V4", {SomeValue}),
        x  \in Opt("AWS_EXECUTION_ENV", ExecutionEnvs),
        f  \in Opt("AWS_LAMBDA_FUNCTION_NAME", {<<>>, SomeValue}) }

PlatformOptions == Opt("platform", Platforms)

InitPlatform == InitWith(PlatformEnvs)

NextPlatform ==
    \/ \E o \in PlatformOptions : getInstance("getInstance", o)
    \/ \E o \in PlatformOptions : getInstance("createLogger", o)
    \/ instance # Null /\ resetInstance
    \/ Info("instance", <<Str("a")>>)

SpecPlatform == InitPlatform /\ [][NextPlatform]_vars

\* Variable `name` of the environment is set, to a non-empty value
IsSet(e, name) == name \in DOMAIN e /\ Len(e[name]) > 0

\* The platform C19 states for a logger built with `options` in environment e
StatedPlatform(options, e) ==
    IF "platform" \in DOMAIN options THEN options["platform"]
    ELSE IF "window" \in DOMAIN e /\ e["window"] THEN "web"
    ELSE IF IsSet(e, "ECS_CONTAINER_METADATA_URI") THEN "ecs"
    ELSE IF IsSet(e, "ECS_CONTAINER_METADATA_URI_V4") THEN "ecs"
    ELSE IF /\ "AWS_EXECUTION_ENV" \in DOMAIN e
            /\ \E i \in 1..Len(e["AWS_EXECUTION_ENV"]) - 2 :
                   /\ e["AWS_EXECUTION_ENV"][i] = "E"
                   /\ e["AWS_EXECUTION_ENV"][i + 1] = "C"
                   /\ e["AWS_EXECUTION_ENV"][i + 2] = "S"
         THEN "ecs"
    ELSE IF IsSet(e, "AWS_LAMBDA_FUNCTION_NAME") THEN "lambda"
    ELSE "console"

\* C19: the platform of a new logger is the platform option when given;
\* otherwise web if a window global with a document exists; else ecs if
\* ECS_CONTAINER_METADATA_URI or ECS_CONTAINER_METADATA_URI_V4 is set (to a
\* non-empty value) or AWS_EXECUTION_ENV contains "ECS"; else lambda if
\* AWS_LAMBDA_FUNCTION_NAME is set (to a non-empty value); else console.  It
\* is a function of the option and the environment, and it does not change
\* during the life of the logger.
C19_PlatformSelection ==
    [][instance' # Null
       => /\ (last'.op \in {"getInstance", "createLogger"} /\ last'.constructed)
                => instance'.platform = StatedPlatform(last'.call.options, env)
          /\ (instance # Null /\ instance'.id = instance.id)
                => instance'.platform = instance.platform]_vars

\* Reached: with an ECS signal and a Lambda signal both present, no window
\* and no platform option, the new logger's platform is ecs
C19_Witness ==
    /\ instance # Null
    /\ "window" \notin DOMAIN env
    /\ EnvTruthy(env, "AWS_LAMBDA_FUNCTION_NAME")
    /\ \/ EnvTruthy(env, "ECS_CONTAINER_METADATA_URI_V4")
       \/ "AWS_EXECUTION_ENV" \in DOMAIN env
    /\ last.op = "getInstance" /\ last.constructed /\ last.call.options = <<>>
    /\ instance.platform = "ecs"

(***************************************************************************)
(* SpecStyle: the style table.  Loggers are built on the three platforms   *)
(* that print styled text, without customStyles, with a complete table for *)
(* one platform and with tables that name only some levels of a platform;  *)
(* every level is then logged.                                             *)
(***************************************************************************)
\* customStyles: { web: { debug, info } } of the README, a complete console
\* table as in the tests, and a lambda table that names info alone
PartialWebStyles ==
    [web |-> [debug |-> "color: #787878;",
              info  |-> "background: #4CAF50; color: white;"]]

FullConsoleStyles ==
    [console |-> [l \in DOMAIN defaultStyles["console"] |-> "custom-" \o l]]

PartialLambdaStyles == [lambda |-> [info |-> "[CUSTOM_INFO]"]]

StyleOptions ==
    { a @@ b @@ c :
        a \in Opt("platform", {"web", "console", "lambda"}),
        b \in Opt("customStyles",
                  {PartialWebStyles, FullConsoleStyles, PartialLambdaStyles}),
        c \in Opt("timestampEnabled", {FALSE}) }

NextStyle ==
    \/ \E o \in StyleOptions : instance = Null /\ getInstance("createLogger", o)
    \/ instance # Null /\ resetInstance
    \/ Debug("instance", <<Str("a")>>)
    \/ Info("instance", <<Str("a")>>)
    \/ Warn("instance", <<Str("a")>>)
    \/ Error("instance", <<Str("a")>>)
    \/ Success("instance", <<Str("a")>>)
    \/ Group("instance", <<Str("a")>>)
    \/ GroupCollapsed("instance", <<Str("a")>>)
    \/ GroupEnd("instance")

SpecStyle == Init /\ [][NextStyle]_vars

\* C20: for a logger built with any customStyles, the style table has a
\* token for every log level on every platform (web, console, lambda, ecs);
\* a token the override names is the override's, every other token is the
\* default; and a styled line on web carries a style string.
C20_StyleTableComplete ==
    instance # Null
    => /\ \A p \in DOMAIN defaultStyles : \A l \in LogLevelSet :
              /\ l \in DOMAIN Styles(instance)[p]
              /\ Styles(instance)[p][l] =
                     IF /\ p \in DOMAIN instance.customStyles
                        /\ l \in DOMAIN instance.customStyles[p]
                     THEN instance.customStyles[p][l]
                     ELSE defaultStyles[p][l]
       /\ (/\ CalledOnInstance(LogLevelSet) /\ instance.platform = "web"
           /\ ~IsStructured(instance))
             => \A i \in 1..Len(out) :
                    out[i].fn = "log" => out[i].args[2].kind = "string"

(***************************************************************************)
(* SpecPrefix: prefixes.  Loggers are built on the platforms that print    *)
(* text, with no prefix, a string prefix and a per-level prefix; the       *)
(* prefix is then set to strings (the empty one included) and to mappings, *)
(* and every level is logged, inside and outside a group.                  *)
(***************************************************************************)
\* A per-level prefix mapping, as an argument
PrefixMap(m) == [kind |-> "map", map |-> m]

PrefixArguments ==
    { Str("[ALL]"), Str(""),
      PrefixMap([debug |-> "[D]"]),
      PrefixMap([info |-> "[I]", group |-> "[G]"]) }

PrefixOptions ==
    { a @@ b @@ c :
        a \in Opt("platform", {"web", "lambda"}),
        b \in Opt("prefix", {Str("[APP]"), PrefixMap([warn |-> "[W]"])}),
        c \in Opt("timestampEnabled", {FALSE}) }

PrefixMessages == { <<Str("a")>>, <<Str("a"), ErrA>> }

NextPrefix ==
    \/ \E o \in PrefixOptions : instance = Null /\ getInstance("createLogger", o)
    \/ \E x \in PrefixArguments : SetPrefix("instance", x)
    \/ Debug("instance", <<Str("a")>>)
    \/ Info("instance", <<Str("a")>>)
    \/ Warn("instance", <<Str("a")>>)
    \/ \E m \in PrefixMessages : Error("instance", m)
    \/ Success("instance", <<Str("a")>>)
    \/ Group("instance", <<Str("a")>>)
    \/ GroupCollapsed("instance", <<Str("a")>>)
    \/ GroupEnd("instance")

SpecPrefix == Init /\ [][NextPrefix]_vars

\* What a level with prefix map `prefix` prints between indent and message
PrefixTokens(prefix, level) ==
    IF level \in DOMAIN prefix /\ prefix[level] # ""
    THEN <<prefix[level], " ">>
    ELSE <<>>

\* C21: setPrefix(string s) sets the prefix of all seven levels to s,
\* whatever it was; setPrefix(mapping m) sets the prefix of exactly the
\* levels that are keys of m and leaves every other level as it was; and in
\* non-structured mode every rendered line of a level with a non-empty
\* prefix p has "p " between the indent and the message, every line of a
\* level without one has nothing there.
C21_SetPrefix ==
    [][(instance # Null /\ last'.via = "instance")
       => /\ (last'.op = "setPrefix" /\ last'.call.prefix.kind = "string")
                => /\ DOMAIN instance'.prefix = LogLevelSet
                   /\ \A l \in LogLevelSet :
                          instance'.prefix[l] = last'.call.prefix.text
          /\ (last'.op = "setPrefix" /\ last'.call.prefix.kind = "map")
                => \A l \in LogLevelSet :
                       IF l \in DOMAIN last'.call.prefix.map
                       THEN /\ l \in DOMAIN instance'.prefix
                            /\ instance'.prefix[l] = last'.call.prefix.map[l]
                       ELSE /\ (l \in DOMAIN instance'.prefix)
                                   <=> (l \in DOMAIN instance.prefix)
                            /\ l \in DOMAIN instance.prefix
                                   => instance'.prefix[l] = instance.prefix[l]
          /\ (last'.op \in LogLevelSet /\ ~IsStructured(instance))
                => \A i \in 1..Len(out') :
                       out'[i].args[1].kind = "text"
                       => LET tokens == out'[i].args[1].tokens
                              from == HeadLen(instance) + 2 * instance.groupLevel
                              rest == SubSeq(tokens, from + 1, Len(tokens))
                              p == PrefixTokens(instance.prefix, last'.op)
                          IN  \/ rest = p
                              \/ rest = p \o formatMessages(last'.call.msgs)]_vars

\* Reached: with the prefix of every level "[ALL]", a warn call inside a
\* group printed "[ALL] " between its indent and its message
C21_Witness ==
    /\ CalledOnInstance({"warn"})
    /\ instance.groupLevel = 1
    /\ ~IsStructured(instance)
    /\ \A l \in LogLevelSet : l \in DOMAIN instance.prefix /\ instance.prefix[l] = "[ALL]"
    /\ Len(out) = 1
    /\ SubSeq(out[1].args[1].tokens, HeadLen(instance) + 3, Len(out[1].args[1].tokens))
           = <<"[ALL]", " ", "a">>

\* C22: no public operation throws.  In every reachable state, on every
\* platform, structured or not, and for every argument list (strings, Error
\* values, Errors with a circular custom property) and every context (a
\* circular value included), the method called last returned normally.
C22_NoThrow == ~last.threw

(***************************************************************************)
(* SpecError: Error values as arguments.  A logger on each platform, with  *)
(* and without timestamps, structured or not; every level is called with   *)
(* texts, objects and Errors (with and without custom properties) in       *)
(* several orders, below and above the minimum level.                      *)
(***************************************************************************)
\* { userId: 123 }
UserObject == Obj("\"userId\":123", TRUE)

ErrorMessages ==
    { <<Str("a")>>,
      <<ErrA>>,
      <<Str("a"), ErrA>>,
      <<Str("a"), UserObject, ErrStatus>>,
      <<ErrStatus, Str("a"), ErrA, Str("b")>> }

ErrorOptions ==
    { a @@ b @@ c :
        a \in Opt("platform", Platforms),
        b \in Opt("structured", {TRUE}),
        c \in Opt("timestampEnabled", {FALSE}) }

NextError ==
    \/ \E o \in ErrorOptions : instance = Null /\ getInstance("createLogger", o)
    \/ \E m \in ErrorMessages : Debug("instance", m)
    \/ \E m \in ErrorMessages : Info("instance", m)
    \/ \E m \in ErrorMessages : Warn("instance", m)
    \/ \E m \in ErrorMessages : Error("instance", m)
    \/ \E m \in ErrorMessages : Success("instance", m)
    \/ \E m \in ErrorMessages : Group("instance", m)
    \/ \E m \in ErrorMessages : GroupCollapsed("instance", m)
    \/ GroupEnd("instance")
    \/ \E level \in {"debug", "success"} : SetMinLogLevel("instance", level)

SpecError == Init /\ [][NextError]_vars

\* The last operation was error(...) on a non-structured logger, passed the
\* filter and had at least one Error among its arguments
ErrorCallWithErrors ==
    /\ CalledOnInstance({"error"})
    /\ ~IsStructured(instance)
    /\ shouldLog(instance, "error")
    /\ SelectErrors(last.call.msgs) # <<>>

\* C23 as stated: on web, console and lambda (non-structured) an error(...)
\* call that passes the filter and has Error arguments makes exactly two
\* output calls.
C23_TwoOutputCalls == ErrorCallWithErrors => Len(out) = 2

\* C23, amended: such a call with n non-Error values and k Error values makes
\* (1 if n > 0, else 0) + k output calls on web and console, and
\* (1 if n > 0, else 0) + 2k on lambda.
C23_OutputCallCount ==
    ErrorCallWithErrors
    => Len(out) = (IF SelectNonErrors(last.call.msgs) # <<>> THEN 1 ELSE 0)
                  + Len(SelectErrors(last.call.msgs))
                    * (IF instance.platform = "lambda" THEN 2 ELSE 1)

\* Reached: error(err, "a", err2, "b") on lambda made five output calls
C23_Witness ==
    /\ ErrorCallWithErrors
    /\ instance.platform = "lambda"
    /\ Len(SelectErrors(last.call.msgs)) = 2
    /\ Len(out) = 5

\* Token sequence `tokens` mentions Error e: one of its tokens is the Error's
\* message or its stack (which begins with the name and the message)
MentionsError(tokens, e) ==
    \E j \in 1..Len(tokens) : tokens[j] \in {e.message, e.stack}

\* C24: on the console platform with timestamps disabled, error(text,
\* ...values, err) makes a console.log call whose first argument is one
\* string that holds the formatted non-Error values and mentions each Error
\* (its message, or its stack with name and message).
C24_ErrorInLogString ==
    (/\ ErrorCallWithErrors
     /\ instance.platform = "console"
     /\ ~instance.timeStampEnabled
     /\ SelectNonErrors(last.call.msgs) # <<>>)
    => \E i \in 1..Len(out) :
           /\ out[i].fn = "log"
           /\ out[i].args[1].kind = "text"
           /\ EndsWith(out[i].args[1].tokens,
                       formatMessages(SelectNonErrors(last.call.msgs)))
           /\ \A k \in 1..Len(SelectErrors(last.call.msgs)) :
                  MentionsError(out[i].args[1].tokens,
                                SelectErrors(last.call.msgs)[k])

\* C25: error-level dispatch in non-structured mode.  For an error(...) call
\* with n non-Error values and k >= 1 Errors that passes the filter,
\* console.log is called once if n > 0 and not at all if n = 0, with the
\* formatted non-Error values, before every console.error call; then the
\* Errors follow in argument order: on web one console.error(err) each, on
\* console one console.error(decoration, err) each, on lambda
\* console.error(decoration) and then console.error(err) each.
C25_ErrorDispatchOrder ==
    ErrorCallWithErrors
    => LET errors == SelectErrors(last.call.msgs)
           nonErrors == SelectNonErrors(last.call.msgs)
           first == IF nonErrors # <<>> THEN 1 ELSE 0
           per == IF instance.platform = "lambda" THEN 2 ELSE 1
       IN  /\ Len(out) = first + per * Len(errors)
           /\ first = 1
                 => /\ out[1].fn = "log"
                    /\ out[1].args[1].kind = "text"
                    /\ EndsWith(out[1].args[1].tokens, formatMessages(nonErrors))
           /\ \A i \in (first + 1)..Len(out) : out[i].fn = "error"
           /\ \A k \in 1..Len(errors) :
                  LET c == out[first + per * k]
                  IN  CASE instance.platform = "web" -> c.args = <<errors[k]>>
                        [] instance.platform = "console" ->
                               /\ Len(c.args) = 2
                               /\ c.args[1].kind = "text"
                               /\ c.args[2] = errors[k]
                        [] instance.platform = "lambda" ->
                               /\ c.args = <<errors[k]>>
                               /\ Len(out[first + per * k - 1].args) = 1
                               /\ out[first + per * k - 1].args[1].kind = "text"

\* Reached: error(errStatus, "a", errA, "b") on web printed the line of "a b"
\* first, then errStatus, then errA
C25_Witness ==
    /\ ErrorCallWithErrors
    /\ instance.platform = "web"
    /\ last.call.msgs = <<ErrStatus, Str("a"), ErrA, Str("b")>>
    /\ Len(out) = 3
    /\ out[1].fn = "log"
    /\ out[2] = Call("error", <<ErrStatus>>)
    /\ out[3] = Call("error", <<ErrA>>)

(***************************************************************************)
(* SpecIsolation: the context map and the maps a caller holds.  The caller *)
(* keeps the map it passed to the constructor or to setContext and the map *)
(* getContext returned, and later adds a key to it or deletes one; the     *)
(* change reaches the logger only if the logger kept, or handed out, that  *)
(* very object.                                                            *)
(***************************************************************************)
\* this.context = options.context ? { ...options.context } : {}  (index.ts
\* 161): the constructor keeps a new object, not the caller's
constructorKeepsCallerMap == FALSE

\* this.context = { ...context }  (index.ts 481)
setContextKeepsCallerMap == FALSE

\* A getContext that returns this.context itself
getContextReturnsOwnMap_Reference == TRUE

\* return { ...this.context }  (index.ts 493): a new object
getContextReturnsOwnMap == FALSE

\* The key the caller adds to a map it holds
CallerKey == "mutated"

\* The map the caller holds after the last operation, and whether it is the
\* object the logger uses as its context
Held ==
    CASE last.op = "getContext" ->
             [map |-> last.ret.map, own |-> getContextReturnsOwnMap]
      [] last.op = "setContext" ->
             [map |-> last.call.context, own |-> setContextKeepsCallerMap]
      [] last.op = "createLogger" ->
             [map |-> last.call.options.context, own |-> constructorKeepsCallerMap]
      [] OTHER -> [map |-> last.call.map, own |-> last.call.own]

\* The caller mutates the map it holds: m[CallerKey] = 1, or delete m[key]
CallerMutates(add, key) ==
    /\ instance # Null
    /\ \/ last.op \in {"getContext", "setContext", "mutate"}
       \/ /\ last.op = "createLogger" /\ last.constructed
          /\ "context" \in DOMAIN last.call.options
    /\ \E h \in {Held} :
       \E m \in {IF add THEN (CallerKey :> Num(1)) @@ h.map ELSE Without(h.map, key)} :
           /\ m # h.map
           /\ instance' = IF h.own THEN [instance EXCEPT !.context = m] ELSE instance
           /\ last' = [op |-> "mutate", via |-> "caller",
                       call |-> [op |-> "mutate", map |-> m, own |-> h.own,
                                 of |-> IF last.op = "mutate"
                                        THEN last.call.of ELSE last.op],
                       constructed |-> FALSE, threw |-> FALSE, ret |-> Undefined]
    /\ out' = <<>>
    /\ UNCHANGED <<release, env, now, target, nextId>>

NextIsolation ==
    \/ \E c \in Opt("context", {UserContext}), p \in Opt("platform", {"ecs"}) :
           /\ instance = Null
           /\ getInstance("createLogger", [structured |-> TRUE] @@ c @@ p)
    \/ ClearContext("instance")
    \/ GroupEnd("instance")
    \/ SetContext("instance", [a |-> Num(1)])
    \/ AddContext("instance", "b", Num(2))
    \/ RemoveContext("instance", "b")
    \/ GetContext("instance")
    \/ Info("instance", <<Str("a")>>)
    \/ Group("instance", <<Str("a")>>)
    \/ CallerMutates(TRUE, CallerKey)
    \/ \E key \in {"a", "user"} : CallerMutates(FALSE, key)

SpecIsolation == Init /\ [][NextIsolation]_vars

Surfaced(o, e) ==
    \E i \in 1..Len(o) :
        \/ /\ o[i].fn = "error"
           /\ \E j \in 1..Len(o[i].args) : o[i].args[j] = e
        \/ /\ o[i].args[1].kind = "json"
           /\ "errors" \in DOMAIN o[i].args[1].entry
           /\ \E j \in 1..Len(o[i].args[1].entry.errors.items) :
                  SerializesError(o[i].args[1].entry.errors.items[j], e)

\* C27: no Error argument is dropped.  On every platform and at every level
\* (debug, info, warn, error, success, group, groupCollapsed), each Error
\* passed to a log call that passes the filter is surfaced in the output:
\* handed to console.error in non-structured mode, an entry of the `errors`
\* array in structured mode.
C27_NoErrorDropped ==
    (/\ CalledOnInstance(LogLevelSet)
     /\ shouldLog(instance, last.op)
     /\ ~last.threw)
    => \A k \in 1..Len(SelectErrors(last.call.msgs)) :
           Surfaced(out, SelectErrors(last.call.msgs)[k])

\* C28: a minimum level without a numeric priority disables filtering.  When
\* the minimum level is group or groupCollapsed (from LOG_LEVEL=group, the
\* minLogLevel option or setMinLogLevel) or a string that names no level, its
\* priority is -1 and every call at debug, info, warn, error and success
\* prints, exactly what it prints with minimum level debug.
C28_NoPriorityNoFilter ==
    [][(/\ instance # Null /\ last'.via = "instance" /\ last'.op \in LogMethods
        /\ instance.minLogLevel \notin LogMethods)
       => /\ PriorityOf[instance.minLogLevel] = -1
          /\ ~last'.threw
          /\ out' # <<>>
          /\ out' = log([instance EXCEPT !.minLogLevel = "debug"],
                        last'.op, last'.call.msgs, now).out]_vars

\* Reached: with LOG_LEVEL=group and no minLogLevel option the minimum level
\* is group, and a debug call printed its line
C28_Witness ==
    /\ env = EnvLogLevel(<<"g","r","o","u","p">>)
    /\ CalledOnInstance({"debug"})
    /\ instance.minLogLevel = "group"
    /\ Len(out) = 1

\* C29: timeEnd removes the timer whatever the level filter does.  When the
\* label has an active timer, timeEnd(label) removes it even if the minimum
\* level is above info, and then prints nothing; when the label has no
\* active timer and the minimum level is above warn, timeEnd(label) and
\* timeLog(label) print nothing, return, and change nothing.
C29_TimerAndFilter ==
    [][TimerCall({"timeEnd", "timeLog"})
       => LET label == last'.call.label
          IN  /\ last'.op = "timeEnd" => label \notin DOMAIN instance'.timers
              /\ (/\ last'.op = "timeEnd" /\ TimerRunning(instance, label)
                  /\ ~shouldLog(instance, "info"))
                    => /\ out' = <<>> /\ ~last'.threw
                       /\ instance'.timers = Without(instance.timers, label)
              /\ (~TimerRunning(instance, label) /\ ~shouldLog(instance, "warn"))
                    => /\ out' = <<>> /\ ~last'.threw
                       /\ instance' = instance]_vars

\* Reached: with minimum level warn, timeEnd("x") on an active timer printed
\* nothing (a missing timer would have printed the warning) and "x" is gone
C29_Witness ==
    /\ CalledOnInstance({"timeEnd"})
    /\ last.call.label = "x"
    /\ instance.minLogLevel = "warn"
    /\ out = <<>> /\ ~last.threw
    /\ "x" \notin DOMAIN instance.timers

(***************************************************************************)
(* The release script with a publish step (scripts/release.ts as kept in   *)
(* unnamed/part_001): main runs its steps in order; publish writes the     *)
(* npm token to a temporary .npmrc file, runs `npm publish`, and removes   *)
(* the file in a finally block.                                            *)
(***************************************************************************)

\* const npmToken = process.env.NPM_TOKEN || process.env.NODE_AUTH_TOKEN
NpmToken(e) ==
    IF "NPM_TOKEN" \in DOMAIN e /\ e["NPM_TOKEN"] # Str("")
    THEN e["NPM_TOKEN"]
    ELSE IF "NODE_AUTH_TOKEN" \in DOMAIN e THEN e["NODE_AUTH_TOKEN"] ELSE Undefined

\* The .npmrc file writeFileSync creates: `//registry.npmjs.org/:_authToken=${npmToken}`
NpmrcContent(npmToken) ==
    [kind |-> "file", content |-> <<"//registry.npmjs.org/:_authToken=", npmToken.text>>]

\* exec(command): the trimmed output when execSync returns; when it throws,
\* two console.error calls and process.exit(1), so exec never throws and the
\* caller's catch and finally blocks do not run
exec(command, ok) ==
    [exited |-> ~ok,
     out |-> IF ok THEN <<>>
             ELSE << Call("error", <<"Failed to execute command: ", command>>),
                     Call("error", <<"error">>) >>]

\* The steps of main that run one command: the warning of the step's own
\* process.exit(1) (a dirty working directory, an invalid version type) if it
\* has one, the message on success if it has one, the command, and the step
\* that follows
Commands ==
    [checkWorkingDirectory |->
        [warn |-> "Working directory is not clean. Please commit or stash changes first.",
         success |-> "Working directory is clean",
         command |-> "git status --porcelain", next |-> "pull"],
     pull |->
        [warn |-> "",
         success |-> "",
         command |-> "git pull origin main", next |-> "updateVersion"],
     updateVersion |->
        [warn |-> "Invalid version type. Must be patch, minor, or major.",
         success |-> "Version updated",
         command |-> "npm version", next |-> "runTests"],
     runTests |->
        [warn |-> "",
         success |-> "Tests passed",
         command |-> "bun test", next |-> "build"],
     build |->
        [warn |-> "",
         success |-> "Build completed",
         command |-> "bun run build", next |-> "publish"],
     pushChanges |->
        [warn |-> "",
         success |-> "Changes and tags pushed",
         command |-> "git push --follow-tags", next |-> "done"]]

\* One step of the script: where it stands afterwards (pc "exited": after
\* process.exit(1)), the .npmrc file afterwards, what it printed, and
\* whether the step left by an exception
ScriptStep(step, pc, npmrc, lines, threw) ==
    /\ release' = [pc |-> pc, npmrc |-> npmrc]
    /\ out' = lines
    /\ last' = [op |-> step, via |-> "script", call |-> [op |-> step],
                constructed |-> FALSE, threw |-> threw, ret |-> Undefined]
    /\ UNCHANGED <<env, now, instance, target, nextId>>

\* main, one command step at a time: the step exits by its own check, or
\* exec runs the command
main ==
    /\ release.pc \in DOMAIN Commands
    /\ \E c \in {Commands[release.pc]} :
       \E outcome \in {"ok", "fail"} \cup (IF c.warn = "" THEN {} ELSE {"refuse"}) :
       \E r \in {exec(c.command, outcome # "fail")} :
           CASE outcome = "refuse" ->
                    ScriptStep(release.pc, "exited", release.npmrc,
                               <<Call("log", <<c.warn>>)>>, FALSE)
             [] r.exited ->
                    ScriptStep(release.pc, "exited", release.npmrc, r.out, FALSE)
             [] OTHER ->
                    ScriptStep(release.pc, c.next, release.npmrc,
                               IF c.success = "" THEN <<>>
                               ELSE <<Call("log", <<c.success>>)>>, FALSE)

\* publish: the token check; writeFileSync, whose exception goes through
\* publish's catch (a warning, rethrown) to main's catch (console.error and
\* process.exit(1)); exec('npm publish --access public'); and the finally
\* block, which removes the file with exec('rm .npmrc') if it exists
publish ==
    \/ /\ release.pc = "publish"
       /\ IF NpmToken(env) \in {Undefined, Str("")}
          THEN ScriptStep("publish", "exited", release.npmrc,
                          << Call("log", <<"Publishing to npm...">>),
                             Call("log", <<"NPM_TOKEN environment variable is not set. Please set it with your npm token.">>) >>,
                          FALSE)
          ELSE ScriptStep("publish", "writeFileSync", release.npmrc,
                          <<Call("log", <<"Publishing to npm...">>)>>, FALSE)
    \/ /\ release.pc = "writeFileSync"
       /\ \E ok \in BOOLEAN :
           IF ok
           THEN ScriptStep("writeFileSync", "npm publish",
                           NpmrcContent(NpmToken(env)), <<>>, FALSE)
           ELSE ScriptStep("writeFileSync", "exited", release.npmrc,
                           << Call("log", <<"Failed to publish package. Please check your npm token and permissions.">>),
                              Call("error", <<"Release failed:", "error">>) >>,
                           TRUE)
    \/ /\ release.pc = "npm publish"
       /\ \E ok \in BOOLEAN : \E r \in {exec("npm publish --access public", ok)} :
           IF r.exited
           THEN ScriptStep("npm publish", "exited", release.npmrc, r.out, FALSE)
           ELSE ScriptStep("npm publish", "finally", release.npmrc,
                           <<Call("log", <<"Package published to npm">>)>>, FALSE)
    \/ /\ release.pc = "finally"
       /\ \E ok \in BOOLEAN : \E r \in {exec("rm .npmrc", ok)} :
           IF release.npmrc = Undefined
           THEN ok /\ ScriptStep("finally", "pushChanges", release.npmrc, <<>>, FALSE)
           ELSE IF r.exited
           THEN ScriptStep("finally", "exited", release.npmrc, r.out, FALSE)
           ELSE ScriptStep("finally", "pushChanges", Undefined, <<>>, FALSE)

NextRelease == main \/ publish

\* The script is started with NPM_TOKEN and NODE_AUTH_TOKEN each unset, empty
\* or set, in a directory with or without a .npmrc file of its own
SpecRelease ==
    /\ \E n \in Opt("NPM_TOKEN", {Str(""), Str("npm_A")}) :
       \E a \in Opt("NODE_AUTH_TOKEN", {Str(""), Str("npm_B")}) : env = n @@ a
    /\ now = 1 /\ instance = Null /\ target = <<>> /\ nextId = 0
    /\ out = <<>> /\ last = NoCall
    /\ release \in {[pc |-> "checkWorkingDirectory", npmrc |-> f] :
                        f \in {Undefined, [kind |-> "file", content |-> <<"save-exact=true">>]}}
    /\ [][NextRelease]_vars

\* C30: in the publish step, once the temporary .npmrc file holding the npm
\* auth token has been written, it is removed on every path out of the step,
\* the path where `npm publish` fails included: whenever the script is past
\* the publish step or the process has exited, no .npmrc file holds the token.
C30_TokenFileRemoved ==
    (/\ release.pc \in {"pushChanges", "done", "exited"}
     /\ NpmToken(env) \notin {Undefined, Str("")})
        => release.npmrc # NpmrcContent(NpmToken(env))

====
